---- MODULE Spec2Model ----
(***************************************************************************)
(* A model of the in-memory annotated-matrix container (anndata-memory):   *)
(* the RwSlot primitive, the selector-to-indices translation, the          *)
(* data-frame element, the axis-array collections and the IMAnnData        *)
(* aggregate.  Each component has its own variables and its own            *)
(* specification; a specification leaves the other components' variables  *)
(* unchanged.                                                              *)
(***************************************************************************)
EXTENDS Integers, Sequences, FiniteSets, TLC

VARIABLES
    sel_elem,    \* selector handed to select_info_elem_to_indices
    sel_bound,   \* bound handed to select_info_elem_to_indices
    sel_res      \* its result, or Pending before the call

VARIABLES
    slot_cell,   \* handle -> storage cell it points to (0: handle not created)
    slot_heap,   \* storage cells: sequence of Option<T>
    slot_origin, \* handle -> how it was obtained, and from which handle
    slot_op,     \* the last call: operation, operands, result
    slot_pc      \* "run", or "blocked" once the thread waits on its own lock

VARIABLES
    tbl_cell,    \* data-frame element handle -> storage cell (0: not created)
    tbl_heap,    \* storage cells: sequence of Option<InnerIMDataFrame>
    tbl_op,      \* the last call on a data-frame element
    tbl_pc       \* "run", or "blocked" once the thread waits on its own lock

VARIABLES
    ad_dims,     \* Dim cells: sequence of sizes; a Dim is an index into it
    ad_elems,    \* IMArrayElement cells: sequence of Option<ArrayData>
    ad,          \* the IMAnnData under study
    ad_op,       \* the call in progress and its result, or AdNoOp between calls
    ad_gone,     \* the layer key the latest change of the aggregate removed, if any
    ad_uns,      \* IMElementCollection cells: sequence of maps from keys to values
    ad_held      \* the handles the caller keeps, in the order it obtained them

VARIABLES
    thr,         \* thread -> the call it runs and the statement it has reached
    locks        \* lock -> the thread holding its write guard (0: free)

varsSel == <<sel_elem, sel_bound, sel_res>>

varsAd == <<ad_dims, ad_elems, ad, ad_op, ad_gone, ad_uns, ad_held>>

varsTbl == <<tbl_cell, tbl_heap, tbl_op, tbl_pc>>

varsSlot == <<slot_cell, slot_heap, slot_origin, slot_op, slot_pc>>

varsThr == <<thr, locks>>

vars == <<sel_elem, sel_bound, sel_res,
          slot_cell, slot_heap, slot_origin, slot_op, slot_pc,
          tbl_cell, tbl_heap, tbl_op, tbl_pc,
          ad_dims, ad_elems, ad, ad_op, ad_gone, ad_uns, ad_held,
          thr, locks>>

\* a step of one component leaves the other components alone
FrameSel == UNCHANGED <<varsSlot, varsTbl, varsAd, varsThr>>

FrameSlot == UNCHANGED <<varsSel, varsTbl, varsAd, varsThr>>

FrameTbl == UNCHANGED <<varsSel, varsSlot, varsAd, varsThr>>

FrameAd == UNCHANGED <<varsSel, varsSlot, varsTbl, varsThr, ad_uns, ad_held>>

\* a step made through a handle the caller keeps
FrameHd == UNCHANGED <<varsSel, varsSlot, varsTbl, varsThr>>

----------------------------------------------------------------------------
(* Option<T>: None is the empty sequence, Some(v) the one-element sequence *)

None == <<>>

Some(v) == <<v>>

IsSome(o) == o # <<>>

Unwrap(o) == o[1]

(* Result of a call: Ok(value), Err (a returned error) or Panic            *)

Ok(v) == [kind |-> "Ok", val |-> v]

Err(e) == [kind |-> "Err", val |-> e]

Panic(e) == [kind |-> "Panic", val |-> e]

Pending == [kind |-> "Pending", val |-> "none"]

IsOk(r) == r.kind = "Ok"

\* the aggregate component between calls, and before an aggregate exists
AdNoOp ==
    [op |-> "none", coll |-> "", key |-> "", shape |-> <<>>, sel |-> <<>>, args |-> <<>>, res |-> Pending]

AdOp(name, coll, key, shape, sel, res) ==
    [op |-> name, coll |-> coll, key |-> key, shape |-> shape, sel |-> sel, args |-> <<>>, res |-> res]

\* the record of a constructor call: args are what the caller handed over
AdNewOp(name, args, res) == [AdOp(name, "", "", args.shape, <<>>, res) EXCEPT !.args = args]

\* no thread has been started
ThrIdle == thr = <<>> /\ locks = <<>>

AdIdle ==
    /\ ad_dims = <<>> /\ ad_elems = <<>> /\ ad = <<>> /\ ad_op = AdNoOp /\ ad_gone = {}
    /\ ad_uns = <<>> /\ ad_held = <<>>

----------------------------------------------------------------------------
(* RwSlot<T>, base/mod.rs: handles (Arc pointers) to lock-guarded cells    *)

\* Number of handles a run may create.
MaxHandles == 3

Handles == 1..MaxHandles

\* The content type T is opaque to every operation of RwSlot: two values are
\* enough to tell whether a cell has changed.
Values == {1, 2}

NoOp == [op |-> "none", h |-> 0, h2 |-> 0, res |-> Pending]

Op(name, h, h2, res) == [op |-> name, h |-> h, h2 |-> h2, res |-> res]

NoOrigin == [how |-> "none", from |-> 0]

SlotIdle ==
    /\ slot_cell = [h \in Handles |-> 0]
    /\ slot_heap = <<>>
    /\ slot_origin = [h \in Handles |-> NoOrigin]
    /\ slot_op = NoOp
    /\ slot_pc = "run"

Created(h) == slot_cell[h] # 0

\* handles are numbered in the order they are created
Fresh(h) == ~Created(h) /\ \A g \in Handles : g < h => Created(g)

\* what a reader of handle h finds behind the lock
Content(h) == slot_heap[slot_cell[h]]

\* RwSlot(Arc::new(RwLock::new(content))): a fresh cell
NewCell(heap, content) == [heap |-> Append(heap, content), cell |-> Len(heap) + 1]

shallow_clone_Copying(heap, k) == NewCell(heap, heap[k])

\* RwSlot(Arc::clone(&self.0))
shallow_clone(heap, k) == [heap |-> heap, cell |-> k]

deep_clone_Aliased(heap, k) == [heap |-> heap, cell |-> k]

\* Some(value) => RwSlot::new(value.clone()), None => RwSlot::none()
deep_clone(heap, k) ==
    IF IsSome(heap[k]) THEN NewCell(heap, Some(Unwrap(heap[k]))) ELSE NewCell(heap, None)

SlotNew(h, v) ==
    /\ slot_pc = "run" /\ Fresh(h)
    /\ slot_heap' = NewCell(slot_heap, Some(v)).heap
    /\ slot_cell' = [slot_cell EXCEPT ![h] = NewCell(slot_heap, Some(v)).cell]
    /\ slot_origin' = [slot_origin EXCEPT ![h] = [how |-> "new", from |-> 0]]
    /\ slot_op' = Op("new", h, 0, Ok(v))
    /\ UNCHANGED slot_pc
    /\ FrameSlot

SlotNone(h) ==
    /\ slot_pc = "run" /\ Fresh(h)
    /\ slot_heap' = NewCell(slot_heap, None).heap
    /\ slot_cell' = [slot_cell EXCEPT ![h] = NewCell(slot_heap, None).cell]
    /\ slot_origin' = [slot_origin EXCEPT ![h] = [how |-> "new", from |-> 0]]
    /\ slot_op' = Op("none", h, 0, Ok(0))
    /\ UNCHANGED slot_pc
    /\ FrameSlot

\* is_none
SlotIsNone(h) ==
    /\ slot_pc = "run" /\ Created(h)
    /\ slot_op' = Op("is_none", h, 0, Ok(~IsSome(Content(h))))
    /\ UNCHANGED <<slot_cell, slot_heap, slot_origin, slot_pc>>
    /\ FrameSlot

\* *slot.read_inner(): the deref panics on an empty slot
SlotRead(h) ==
    /\ slot_pc = "run" /\ Created(h)
    /\ slot_op' = Op("read_inner", h, 0,
                     IF IsSome(Content(h)) THEN Ok(Unwrap(Content(h)))
                     ELSE Panic("accessing an empty slot"))
    /\ UNCHANGED <<slot_cell, slot_heap, slot_origin, slot_pc>>
    /\ FrameSlot

\* *slot.write_inner() = v: the deref_mut panics on an empty slot
SlotWrite(h, v) ==
    /\ slot_pc = "run" /\ Created(h)
    /\ IF IsSome(Content(h))
       THEN /\ slot_heap' = [slot_heap EXCEPT ![slot_cell[h]] = Some(v)]
            /\ slot_op' = Op("write_inner", h, 0, Ok(v))
       ELSE /\ slot_heap' = slot_heap
            /\ slot_op' = Op("write_inner", h, 0, Panic("accessing an empty slot"))
    /\ UNCHANGED <<slot_cell, slot_origin, slot_pc>>
    /\ FrameSlot

\* insert: replaces the content, returns the previous one
SlotInsert(h, v) ==
    /\ slot_pc = "run" /\ Created(h)
    /\ slot_heap' = [slot_heap EXCEPT ![slot_cell[h]] = Some(v)]
    /\ slot_op' = Op("insert", h, 0, Ok(Content(h)))
    /\ UNCHANGED <<slot_cell, slot_origin, slot_pc>>
    /\ FrameSlot

SlotExtract_KeepsValue(h) ==
    /\ slot_pc = "run" /\ Created(h)
    /\ slot_op' = Op("extract", h, 0, Ok(Content(h)))
    /\ UNCHANGED <<slot_cell, slot_heap, slot_origin, slot_pc>>
    /\ FrameSlot

\* extract (and drop, which discards what extract returns)
SlotExtract(h) ==
    /\ slot_pc = "run" /\ Created(h)
    /\ slot_heap' = [slot_heap EXCEPT ![slot_cell[h]] = None]
    /\ slot_op' = Op("extract", h, 0, Ok(Content(h)))
    /\ UNCHANGED <<slot_cell, slot_origin, slot_pc>>
    /\ FrameSlot

\* shallow_clone, and Clone::clone which calls it
SlotShallowClone(s, c) ==
    /\ slot_pc = "run" /\ Created(s) /\ Fresh(c)
    /\ slot_heap' = shallow_clone(slot_heap, slot_cell[s]).heap
    /\ slot_cell' = [slot_cell EXCEPT ![c] = shallow_clone(slot_heap, slot_cell[s]).cell]
    /\ slot_origin' = [slot_origin EXCEPT ![c] = [how |-> "shallow", from |-> s]]
    /\ slot_op' = Op("shallow_clone", s, c, Ok(0))
    /\ UNCHANGED slot_pc
    /\ FrameSlot

SlotDeepClone(s, c) ==
    /\ slot_pc = "run" /\ Created(s) /\ Fresh(c)
    /\ slot_heap' = deep_clone(slot_heap, slot_cell[s]).heap
    /\ slot_cell' = [slot_cell EXCEPT ![c] = deep_clone(slot_heap, slot_cell[s]).cell]
    /\ slot_origin' = [slot_origin EXCEPT ![c] = [how |-> "deep", from |-> s]]
    /\ slot_op' = Op("deep_clone", s, c, Ok(0))
    /\ UNCHANGED slot_pc
    /\ FrameSlot

\* a swap that assigns other's content to self and leaves other as it was
mem_swap_Assigning(heap, ka, kb) == [heap EXCEPT ![ka] = heap[kb]]

\* std::mem::swap of the contents behind the two guards
mem_swap(heap, ka, kb) == [heap EXCEPT ![ka] = heap[kb], ![kb] = heap[ka]]

\* swap: lock_write on self, then lock_write on other, then mem::swap.
\* The lock is not reentrant: when both handles point to one cell the second
\* lock_write waits for the guard the same thread holds.
SlotSwap(a, b) ==
    /\ slot_pc = "run" /\ Created(a) /\ Created(b)
    /\ IF slot_cell[a] = slot_cell[b]
       THEN /\ slot_pc' = "blocked"
            /\ slot_heap' = slot_heap
            /\ slot_op' = Op("swap", a, b, Pending)
       ELSE /\ slot_pc' = slot_pc
            /\ slot_heap' = mem_swap(slot_heap, slot_cell[a], slot_cell[b])
            /\ slot_op' = Op("swap", a, b, Ok(0))
    /\ UNCHANGED <<slot_cell, slot_origin>>
    /\ FrameSlot

----------------------------------------------------------------------------
(* IMDataFrameElement, ad/helpers.rs: RwSlot<InnerIMDataFrame>             *)
(* A DataFrame is a function from column names to columns of equal length; *)
(* the frame without columns has height 0.  Labels and cell values are     *)
(* numbers: label 10*t + i stands for the i-th label of label list t.      *)

\* Tallest table and longest label list offered as input.
MaxHeight == 2

\* Number of data-frame element handles a run may create.
MaxTblHandles == 2

TblHandles == 1..MaxTblHandles

ColNames == {"index", "x"}

EmptyFrame == <<>>

\* DataFrame::height
Height(df) == IF DOMAIN df = {} THEN 0 ELSE Len(df[CHOOSE n \in DOMAIN df : TRUE])

\* a column (Series) or label list of length n
ColData(tag, n) == [i \in 1..n |-> 10 * tag + i]

MkFrame(names, n, tag) == [c \in names |-> ColData(tag, n)]

\* DataFrame::new(vec![Series::new("index", labels)])
IndexFrame(index) == [c \in {"index"} |-> index]

Inner(df, index) == [df |-> df, index |-> index]

\* result of a call on a cell, and the cell's content after it
Out(res, content) == [res |-> res, content |-> content]

df_new_NoSynthesis(df, index) ==
    IF Height(df) # Len(index)
    THEN Panic("Length of index does not match length of DataFrame")
    ELSE Ok(Inner(df, index))

\* IMDataFrameElement::new: the content of the element built, or the panic
df_new(df, index) ==
    IF Height(df) = 0
    THEN Ok(Inner(IndexFrame(index), index))
    ELSE IF Height(df) # Len(index)
         THEN Panic("Length of index does not match length of DataFrame")
         ELSE Ok(Inner(df, index))

\* IMDataFrameElement::set_both on a cell holding o
set_both(o, df, index) ==
    IF ~IsSome(o) THEN Out(Err("DataFrame is not initialized"), o)
    ELSE IF \/ Height(Unwrap(o).df) # Height(df)
            \/ Len(Unwrap(o).index) # Len(index)
            \/ Height(Unwrap(o).df) # Len(index)
         THEN Out(Err("Length of index does not match length of DataFrame"), o)
         ELSE Out(Ok(0), Some(Inner(df, index)))

\* IMDataFrameElement::set_data
df_set_data(o, df) ==
    IF ~IsSome(o) THEN Out(Err("DataFrame is not initialized"), o)
    ELSE IF \/ Len(Unwrap(o).index) # Height(df)
            \/ Height(Unwrap(o).df) # Height(df)
         THEN Out(Err("Length of index does not match length of DataFrame"), o)
         ELSE Out(Ok(0), Some(Inner(df, Unwrap(o).index)))

\* IMDataFrameElement::set_index
set_index(o, index) ==
    IF ~IsSome(o) THEN Out(Err("DataFrame is not initialized"), o)
    ELSE IF \/ Height(Unwrap(o).df) # Len(index)
            \/ Len(Unwrap(o).index) # Len(index)
         THEN Out(Err("Length of index does not match length of DataFrame"), o)
         ELSE Out(Ok(0), Some(Inner(Unwrap(o).df, index)))

\* DataFrame::with_column for a column as long as the frame is tall: the
\* column replaces the one of its name or is added
WithColumn(df, name, col) == [c \in DOMAIN df \cup {name} |-> IF c = name THEN col ELSE df[c]]

attach_column_to_df_NoCheck(o, name, col) ==
    IF ~IsSome(o) THEN Out(Err("DataFrame is not initialized"), o)
    ELSE Out(Ok(0), Some(Inner(WithColumn(Unwrap(o).df, name, col), Unwrap(o).index)))

\* IMDataFrameElement::attach_column_to_df
attach_column_to_df(o, name, col) ==
    IF ~IsSome(o) THEN Out(Err("DataFrame is not initialized"), o)
    ELSE IF Height(Unwrap(o).df) # Len(col)
         THEN Out(Err("Length of column does not match length of DataFrame"), o)
         ELSE Out(Ok(0), Some(Inner(WithColumn(Unwrap(o).df, name, col), Unwrap(o).index)))

\* IMDataFrameElement::remove_column_from_df; drop_in_place fails on a
\* column the frame does not have
remove_column_from_df(o, name) ==
    IF ~IsSome(o) THEN Out(Err("DataFrame is not initialized"), o)
    ELSE IF name \notin DOMAIN Unwrap(o).df
         THEN Out(Err("ColumnNotFound"), o)
         ELSE Out(Ok(0), Some(Inner([c \in DOMAIN Unwrap(o).df \ {name} |-> Unwrap(o).df[c]],
                                    Unwrap(o).index)))

\* IMDataFrameElement::set_column_in_df; DataFrame::replace fails on a
\* column the frame does not have and on a column of another length
set_column_in_df(o, name, col) ==
    IF ~IsSome(o) THEN Out(Err("DataFrame is not initialized"), o)
    ELSE IF name \notin DOMAIN Unwrap(o).df
         THEN Out(Err("ColumnNotFound"), o)
         ELSE IF Len(col) # Height(Unwrap(o).df)
              THEN Out(Err("ShapeMismatch"), o)
              ELSE Out(Ok(0), Some(Inner(WithColumn(Unwrap(o).df, name, col), Unwrap(o).index)))

TblNoOp ==
    [op |-> "none", h |-> 0, df |-> EmptyFrame, col |-> <<>>, name |-> "", sel |-> <<>>, res |-> Pending]

TblOp(name, h, df, col, cname, res) ==
    [op |-> name, h |-> h, df |-> df, col |-> col, name |-> cname, sel |-> <<>>, res |-> res]

\* a call that takes a selector
TblSelOp(name, h, sel, res) == [TblOp(name, h, EmptyFrame, <<>>, "", res) EXCEPT !.sel = sel]

TblIdle ==
    /\ tbl_cell = [h \in TblHandles |-> 0]
    /\ tbl_heap = <<>>
    /\ tbl_op = TblNoOp
    /\ tbl_pc = "run"

TblCreated(h) == tbl_cell[h] # 0

\* handles are numbered in the order they are created
TblFresh(h) == ~TblCreated(h) /\ \A g \in TblHandles : g < h => TblCreated(g)

TblContent(h) == tbl_heap[tbl_cell[h]]

\* Cell values are opaque to every operation: two contents per length are
\* enough to tell a replaced column or label list from the one it replaced.
Tags == {1, 2}

DfInputs == {MkFrame(names, n, 1) : names \in SUBSET ColNames, n \in 0..MaxHeight}

ColInputs == {ColData(tag, n) : n \in 0..MaxHeight, tag \in Tags}

\* let e = IMDataFrameElement::new(df, index): a run builds one element, as
\* its first handle; the other handles are clones of it
TblNew(h, df, index) ==
    /\ tbl_pc = "run" /\ tbl_op = TblNoOp /\ TblFresh(h) /\ h = 1
    /\ IF IsOk(df_new(df, index))
       THEN /\ tbl_heap' = NewCell(tbl_heap, Some(df_new(df, index).val)).heap
            /\ tbl_cell' = [tbl_cell EXCEPT ![h] = NewCell(tbl_heap, Some(df_new(df, index).val)).cell]
            /\ tbl_op' = TblOp("new", h, df, index, "", Ok(0))
       ELSE /\ UNCHANGED <<tbl_heap, tbl_cell>>
            /\ tbl_op' = TblOp("new", h, df, index, "", df_new(df, index))
    /\ UNCHANGED tbl_pc
    /\ FrameTbl

\* impl Clone for IMDataFrameElement: a shallow clone of the slot
TblClone(s, c) ==
    /\ tbl_pc = "run" /\ tbl_op = TblNoOp /\ TblCreated(s) /\ TblFresh(c)
    /\ tbl_heap' = shallow_clone(tbl_heap, tbl_cell[s]).heap
    /\ tbl_cell' = [tbl_cell EXCEPT ![c] = shallow_clone(tbl_heap, tbl_cell[s]).cell]
    /\ tbl_op' = TblOp("clone", s, EmptyFrame, <<>>, "", Ok(0))
    /\ UNCHANGED tbl_pc
    /\ FrameTbl

\* a mutator applied through handle h: it writes the cell h points to
TblApply(h, name, df, col, cname, out) ==
    /\ tbl_pc = "run" /\ tbl_op = TblNoOp /\ TblCreated(h)
    /\ tbl_heap' = [tbl_heap EXCEPT ![tbl_cell[h]] = out.content]
    /\ tbl_op' = TblOp(name, h, df, col, cname, out.res)
    /\ UNCHANGED <<tbl_cell, tbl_pc>>
    /\ FrameTbl

TblSetBoth(h, df, index) ==
    TblCreated(h) /\ TblApply(h, "set_both", df, index, "", set_both(TblContent(h), df, index))

TblSetData(h, df) ==
    TblCreated(h) /\ TblApply(h, "set_data", df, <<>>, "", df_set_data(TblContent(h), df))

TblSetIndex(h, index) ==
    TblCreated(h) /\ TblApply(h, "set_index", EmptyFrame, index, "", set_index(TblContent(h), index))

TblAttachColumn(h, name, col) ==
    TblCreated(h) /\ TblApply(h, "attach_column", EmptyFrame, col, name,
                              attach_column_to_df(TblContent(h), name, col))

TblRemoveColumn(h, name) ==
    TblCreated(h) /\ TblApply(h, "remove_column", EmptyFrame, <<>>, name,
                              remove_column_from_df(TblContent(h), name))

TblSetColumn(h, name, col) ==
    TblCreated(h) /\ TblApply(h, "set_column", EmptyFrame, col, name,
                              set_column_in_df(TblContent(h), name, col))

\* get_data and get_index: clones of the two halves under one read guard each
TblGet(h) ==
    /\ tbl_pc = "run" /\ tbl_op = TblNoOp /\ TblCreated(h)
    /\ tbl_op' = TblOp("get", h, Unwrap(TblContent(h)).df, Unwrap(TblContent(h)).index, "", Ok(0))
    /\ UNCHANGED <<tbl_cell, tbl_heap, tbl_pc>>
    /\ FrameTbl

\* the call returns to the caller, which makes its next call
TblReturn ==
    /\ tbl_pc = "run" /\ tbl_op # TblNoOp
    /\ tbl_op' = TblNoOp
    /\ UNCHANGED <<tbl_cell, tbl_heap, tbl_pc>>
    /\ FrameTbl

----------------------------------------------------------------------------
(* Selector-to-indices translation, utils/mod.rs                           *)

\* Largest bound handed to the translation.
MaxBound == 5

\* Largest explicit position and largest slice start offered as input.
MaxIdx == 5

\* Longest explicit index list offered as input.
MaxLen == 3

\* Stand-in for 2^64: TLC's integers are 32 bits wide.  Any modulus above
\* every bound and every selector value of the model orders the casts of
\* negative numbers above every bound, as 2^64 does.
UsizeModulus == 2^20

\* `x as usize` for an isize x
AsUsize(x) == x % UsizeModulus

SelectIndex(indices) == [kind |-> "Index", indices |-> indices, start |-> 0, end |-> None, step |-> 1]

SelectSlice(start, end, step) == [kind |-> "Slice", indices |-> <<>>, start |-> start, end |-> end, step |-> step]

\* SelectInfoElem::full(): the slice (0, None, 1)
SelectFull == SelectSlice(0, None, 1)

RECURSIVE StepBy(_, _, _)
\* (start..end).step_by(n) for n >= 1
StepBy(start, end, n) ==
    IF start >= end THEN <<>> ELSE <<start>> \o StepBy(start + n, end, n)

IndexToIndices_OffByOne(indices, bound) ==
    IF \E k \in 1..Len(indices) : indices[k] > bound
    THEN Err("IndexOutOfBounds")
    ELSE Ok(indices)

\* the SelectInfoElem::Index arm
IndexToIndices(indices, bound) ==
    IF \E k \in 1..Len(indices) : indices[k] >= bound
    THEN Err("IndexOutOfBounds")
    ELSE Ok(indices)

SliceToIndices_EndInclusive(start, end, step, bound) ==
    LET e == IF IsSome(end) THEN Unwrap(end) ELSE bound
    IN  IF AsUsize(start) >= bound \/ AsUsize(e) > bound
        THEN Err("SliceOutOfBounds")
        ELSE IF AsUsize(step) = 0
             THEN Panic("step_by(0)")
             ELSE Ok([k \in 1..Len(StepBy(start, e + 1, AsUsize(step))) |->
                        AsUsize(StepBy(start, e + 1, AsUsize(step))[k])])

\* the SelectInfoElem::Slice arm
SliceToIndices(start, end, step, bound) ==
    LET e == IF IsSome(end) THEN Unwrap(end) ELSE bound
    IN  IF AsUsize(start) >= bound \/ AsUsize(e) > bound
        THEN Err("SliceOutOfBounds")
        ELSE IF AsUsize(step) = 0
             THEN Panic("step_by(0)")
             ELSE Ok([k \in 1..Len(StepBy(start, e, AsUsize(step))) |->
                        AsUsize(StepBy(start, e, AsUsize(step))[k])])

select_info_elem_to_indices(elem, bound) ==
    IF elem.kind = "Index"
    THEN IndexToIndices(elem.indices, bound)
    ELSE SliceToIndices(elem.start, elem.end, elem.step, bound)

\* all sequences over S of length at most n
SeqUpTo(S, n) == UNION {[1..k -> S] : k \in 0..n}

SelInputs ==
    {SelectIndex(l) : l \in SeqUpTo(0..MaxIdx, MaxLen)}
    \cup {SelectSlice(s, e, st) :
            s \in -1..MaxIdx,
            e \in {None} \cup {Some(x) : x \in -1..(MaxIdx + 1)},
            st \in -1..2}

SelIdle == sel_elem = SelectFull /\ sel_bound = 0 /\ sel_res = Pending

InitSel ==
    /\ sel_elem \in SelInputs
    /\ sel_bound \in 0..MaxBound
    /\ sel_res = Pending
    /\ SlotIdle
    /\ TblIdle
    /\ AdIdle
    /\ ThrIdle

\* one call of select_info_elem_to_indices on the chosen input
Translate ==
    /\ sel_res = Pending
    /\ sel_res' = select_info_elem_to_indices(sel_elem, sel_bound)
    /\ UNCHANGED <<sel_elem, sel_bound>>
    /\ FrameSel

NextSel == Translate

SpecSel == InitSel /\ [][NextSel]_vars

\* the ascending arithmetic sequence start, start+step, ... below end
ArithSeq(start, end, step) ==
    LET n == IF end <= start THEN 0 ELSE ((end - start - 1) \div step) + 1
    IN  [k \in 1..n |-> start + (k - 1) * step]

SelDone == sel_res # Pending

SliceEnd == IF IsSome(sel_elem.end) THEN Unwrap(sel_elem.end) ELSE sel_bound

\* C5: an explicit list whose positions are all below the bound translates
\* to exactly that list (order and duplicates kept); a list with a position
\* at or above the bound fails with an out-of-bounds error and no indices.
C5_IndexTranslation ==
    (SelDone /\ sel_elem.kind = "Index") =>
        IF \A k \in 1..Len(sel_elem.indices) : sel_elem.indices[k] < sel_bound
        THEN sel_res = Ok(sel_elem.indices)
        ELSE sel_res = Err("IndexOutOfBounds")

C5_Witness ==
    /\ sel_elem = SelectIndex(<<2, 0, 1>>)
    /\ sel_bound = 3
    /\ sel_res = Ok(<<2, 0, 1>>)

\* C6 as stated: for step >= 1 the translation fails exactly when
\* start >= bound or end > bound (unbounded end taken as the bound) and
\* otherwise returns the ascending sequence from start below end.
C6_SliceTranslation_AsStated ==
    (SelDone /\ sel_elem.kind = "Slice" /\ sel_elem.step >= 1) =>
        IF sel_elem.start >= sel_bound \/ SliceEnd > sel_bound
        THEN sel_res.kind = "Err"
        ELSE /\ sel_res = Ok(ArithSeq(sel_elem.start, SliceEnd, sel_elem.step))
             /\ \A k \in 1..Len(sel_res.val) : sel_res.val[k] < sel_bound

\* C6 amended: for step >= 1 the translation fails exactly when start or
\* end is negative, start >= bound or end > bound; otherwise it returns the
\* ascending sequence start, start+step, ... below end, every index < bound.
C6_SliceTranslation ==
    (SelDone /\ sel_elem.kind = "Slice" /\ sel_elem.step >= 1) =>
        IF \/ sel_elem.start < 0
           \/ SliceEnd < 0
           \/ sel_elem.start >= sel_bound
           \/ SliceEnd > sel_bound
        THEN sel_res = Err("SliceOutOfBounds")
        ELSE /\ sel_res = Ok(ArithSeq(sel_elem.start, SliceEnd, sel_elem.step))
             /\ \A k \in 1..Len(sel_res.val) : sel_res.val[k] < sel_bound

C6_Witness ==
    /\ sel_elem = SelectSlice(1, None, 1)
    /\ sel_bound = 5
    /\ sel_res = Ok(<<1, 2, 3, 4>>)

\* C34: for every bound n >= 0, n = 0 included, the full-range slice
\* (start 0, end unbounded, step 1) translates successfully to exactly the
\* positions 0, 1, ..., n-1 (the empty list for n = 0).
C34_FullRangeTranslates ==
    (SelDone /\ sel_elem = SelectFull) =>
        sel_res = Ok(ArithSeq(0, sel_bound, 1))

\* C35: a slice with a negative step whose start and end lie within the
\* bound never translates to a list of indices: the translation faults or
\* returns an error.
C35_NegativeStepFails ==
    (/\ SelDone
     /\ sel_elem.kind = "Slice"
     /\ sel_elem.step < 0
     /\ sel_elem.start >= 0 /\ sel_elem.start < sel_bound
     /\ SliceEnd >= 0 /\ SliceEnd <= sel_bound) =>
        sel_res.kind # "Ok"

----------------------------------------------------------------------------
(* ArrayData and IMArrayElement, ad/helpers.rs                             *)
(* An array is its shape and its entries, a function from the 1-based      *)
(* coordinates to values; the entry of array t at (i, j) is <<t, i, j>>.   *)
(* A Dim and an IMArrayElement are shared cells: both are numbers, the     *)
(* positions of their cells in ad_dims and ad_elems.                       *)

\* largest row and column count of an aggregate
MaxDim == 2

Coords(shape) ==
    IF Len(shape) = 1 THEN {<<i>> : i \in 1..shape[1]}
    ELSE IF Len(shape) = 2 THEN {<<i, j>> : i \in 1..shape[1], j \in 1..shape[2]}
    ELSE {<<i, j, k>> : i \in 1..shape[1], j \in 1..shape[2], k \in 1..shape[3]}

MkArray(tag, shape) == [shape |-> shape, at |-> [c \in Coords(shape) |-> <<tag>> \o c]]

\* the positions one selector picks on an axis of length n, by the array's
\* own rules: an index beyond the axis or a slice beyond it aborts
AxisIndices(sel, n) ==
    IF sel.kind = "Index"
    THEN IF \E k \in 1..Len(sel.indices) : sel.indices[k] >= n
         THEN Panic("IndexOutOfBounds")
         ELSE Ok(sel.indices)
    ELSE LET s  == IF sel.start < 0 THEN sel.start + n ELSE sel.start
             e0 == IF IsSome(sel.end)
                   THEN (IF Unwrap(sel.end) < 0 THEN Unwrap(sel.end) + n ELSE Unwrap(sel.end))
                   ELSE n
             e  == IF e0 < s THEN s ELSE e0
         IN  IF s < 0 \/ s > n \/ e > n \/ sel.step = 0
             THEN Panic("SliceOutOfBounds")
             ELSE IF sel.step > 0
                  THEN Ok(ArithSeq(s, e, sel.step))
                  ELSE Ok([k \in 1..Len(ArithSeq(s, e, -sel.step)) |-> e - 1 - (k - 1) * (-sel.step)])

\* ArrayData::select: one selector per dimension of the array
ArraySelect(arr, s) ==
    IF Len(s) # Len(arr.shape)
    THEN Panic("SelectionArityMismatch")
    ELSE LET ax == [k \in 1..Len(s) |-> AxisIndices(s[k], arr.shape[k])]
         IN  IF \E k \in 1..Len(s) : ~IsOk(ax[k])
             THEN Panic("SelectionOutOfBounds")
             ELSE LET shape == [k \in 1..Len(s) |-> Len(ax[k].val)]
                  IN  Ok([shape |-> shape,
                          at |-> [c \in Coords(shape) |->
                                    arr.at[[k \in 1..Len(s) |-> ax[k].val[c[k]] + 1]]]])

\* the heap of the aggregate component: the Dim cells and the element cells
Heap == [dims |-> ad_dims, elems |-> ad_elems]

\* a result together with the heap the call leaves
WithHeap(res, H) == [res |-> res, heap |-> H]

\* Dim::new(n): the new cell is the last one
DimNew(H, n) == [H EXCEPT !.dims = Append(@, n)]

\* IMArrayElement::new(data): the new cell is the last one
ElemNew(H, arr) == [H EXCEPT !.elems = Append(@, Some(arr))]

\* IMArrayElement::get_shape
get_shape(H, e) ==
    IF IsSome(H.elems[e])
    THEN Ok(Unwrap(H.elems[e]).shape)
    ELSE Panic("UninitializedAccess")

\* an in-place selection returning the receiver's own cell
elem_subset_InPlace(H, e, s) ==
    IF ~IsSome(H.elems[e])
    THEN WithHeap(Panic("UninitializedAccess"), H)
    ELSE LET r == ArraySelect(Unwrap(H.elems[e]), s)
         IN  IF ~IsOk(r)
             THEN WithHeap(r, H)
             ELSE WithHeap(Ok(e), [H EXCEPT !.elems[e] = Some(r.val)])

\* IMArrayElement::subset: a new element holding the selection
elem_subset(H, e, s) ==
    IF ~IsSome(H.elems[e])
    THEN WithHeap(Panic("UninitializedAccess"), H)
    ELSE LET r == ArraySelect(Unwrap(H.elems[e]), s)
         IN  IF ~IsOk(r)
             THEN WithHeap(r, H)
             ELSE WithHeap(Ok(Len(H.elems) + 1), ElemNew(H, r.val))

(* IMAxisArrays, ad/helpers.rs: axis kind, dim1, optional dim2 and the     *)
(* map from keys to elements                                               *)

Keys == {"k1", "k2"}

\* the order in which the members of a map are visited
KeyOrder == <<"k1", "k2">>

\* Option<Dim> = None
NoDim == 0

\* IMAxisArrays::new
AxisArrays(axis, dim1, dim2) == [axis |-> axis, dim1 |-> dim1, dim2 |-> dim2, data |-> <<>>]

\* HashMap::insert of an absent key
MapInsert(data, key, e) == [k \in DOMAIN data \cup {key} |-> IF k = key THEN e ELSE data[k]]

\* HashMap::remove of a present key
MapRemove(data, key) == [k \in DOMAIN data \ {key} |-> data[k]]

add_array_RowRuleOnly(H, c, key, e) ==
    IF key \in DOMAIN c.data
    THEN Out(Err("KeyAlreadyExists"), c)
    ELSE LET sh == get_shape(H, e)
         IN  IF ~IsOk(sh)
             THEN Out(sh, c)
             ELSE IF sh.val[1] # H.dims[c.dim1]
                  THEN Out(Err("ShapeMismatch"), c)
                  ELSE Out(Ok(0), [c EXCEPT !.data = MapInsert(@, key, e)])

\* IMAxisArrays::add_array: the result and the collection it leaves
add_array(H, c, key, e) ==
    IF key \in DOMAIN c.data
    THEN Out(Err("KeyAlreadyExists"), c)
    ELSE LET sh == get_shape(H, e)
         IN  IF ~IsOk(sh)
             THEN Out(sh, c)
             ELSE LET shape  == sh.val
                      dim1   == H.dims[c.dim1]
                      dim2   == IF c.dim2 # NoDim THEN H.dims[c.dim2] ELSE 0
                      second == IF c.axis = "RowColumn" THEN dim2 ELSE dim1
                  IN  IF shape[1] # dim1
                      THEN Out(Err("ShapeMismatch"), c)
                      ELSE IF c.axis = "Row"
                           THEN Out(Ok(0), [c EXCEPT !.data = MapInsert(@, key, e)])
                           ELSE IF Len(shape) < 2
                                THEN Out(Panic("index out of bounds"), c)
                                ELSE IF shape[2] # second
                                     THEN Out(Err("ShapeMismatch"), c)
                                     ELSE Out(Ok(0), [c EXCEPT !.data = MapInsert(@, key, e)])

\* a get_array that hands out the member itself
get_array_Shallow(H, c, key) ==
    IF key \in DOMAIN c.data
    THEN WithHeap(Ok(c.data[key]), H)
    ELSE WithHeap(Err("KeyNotFound"), H)

\* IMAxisArrays::get_array: a deep clone of the member
get_array(H, c, key) ==
    IF key \in DOMAIN c.data
    THEN LET n == deep_clone(H.elems, c.data[key])
         IN  WithHeap(Ok(n.cell), [H EXCEPT !.elems = n.heap])
    ELSE WithHeap(Err("KeyNotFound"), H)

\* IMAxisArrays::get_array_shallow: the member itself
get_array_shallow(c, key) ==
    IF key \in DOMAIN c.data THEN Ok(c.data[key]) ELSE Err("KeyNotFound")

remove_array_KeepsKey(c, key) ==
    IF key \in DOMAIN c.data
    THEN Out(Ok(c.data[key]), c)
    ELSE Out(Err("KeyNotFound"), c)

\* IMAxisArrays::remove_array: the removed member and the collection left
remove_array(c, key) ==
    IF key \in DOMAIN c.data
    THEN Out(Ok(c.data[key]), [c EXCEPT !.data = MapRemove(@, key)])
    ELSE Out(Err("KeyNotFound"), c)

\* the keys of a map, in visiting order
KeysOf(data) == SelectSeq(KeyOrder, LAMBDA k : k \in DOMAIN data)

RECURSIVE SubsetMembers(_, _, _, _, _)

\* the loop of IMAxisArrays::subset over the members still to visit
SubsetMembers(H, data, todo, s, acc) ==
    IF todo = <<>>
    THEN WithHeap(Ok(acc), H)
    ELSE LET r == elem_subset(H, data[Head(todo)], s)
         IN  IF ~IsOk(r.res)
             THEN r
             ELSE SubsetMembers(r.heap, data, Tail(todo), s, MapInsert(acc, Head(todo), r.res.val))

\* the one element of a one-element set: Only({F(x) : x \in {v}}) is F(v)
\* with v worked out once
Only(S) == CHOOSE y \in S : TRUE

\* IMAxisArrays::subset: a new collection over new dims; a failure drops
\* whatever was built
axis_subset(H, c, s) ==
    IF Len(s) = 0
    THEN WithHeap(Panic("index out of bounds"), H)
    ELSE LET i1 == select_info_elem_to_indices(s[1], H.dims[c.dim1])
         IN  IF ~IsOk(i1)
             THEN WithHeap(i1, H)
             ELSE IF c.dim2 # NoDim /\ Len(s) < 2
                  THEN WithHeap(Err("SelectionArityMismatch"), H)
                  ELSE LET H1 == DimNew(H, Len(i1.val))
                           i2 == IF c.dim2 # NoDim
                                 THEN select_info_elem_to_indices(s[2], H.dims[c.dim2])
                                 ELSE Ok(<<>>)
                           H2 == IF c.dim2 # NoDim THEN DimNew(H1, Len(i2.val)) ELSE H1
                       IN  IF ~IsOk(i2)
                           THEN WithHeap(i2, H)
                           ELSE Only({IF ~IsOk(m.res)
                                      THEN WithHeap(m.res, H)
                                      ELSE WithHeap(Ok([axis |-> c.axis,
                                                        dim1 |-> Len(H1.dims),
                                                        dim2 |-> IF c.dim2 # NoDim THEN Len(H2.dims) ELSE NoDim,
                                                        data |-> m.res.val]),
                                                    m.heap) :
                                      m \in {SubsetMembers(H2, c.data, KeysOf(c.data), s, <<>>)}})

\* DataFrame::take: the rows at the given positions, in order
TakeRows(df, idx) ==
    IF DOMAIN df # {} /\ \E k \in 1..Len(idx) : idx[k] >= Height(df)
    THEN Err("IndexOutOfBounds")
    ELSE Ok([c \in DOMAIN df |-> [k \in 1..Len(idx) |-> df[c][idx[k] + 1]]])

\* IMDataFrameElement::subset on a cell holding o: the content of the new
\* element
df_subset(o, s) ==
    IF ~IsSome(o)
    THEN Panic("UninitializedAccess")
    ELSE LET d  == Unwrap(o)
             ix == select_info_elem_to_indices(s, Len(d.index))
             ind_subset == [k \in 1..Len(ix.val) |-> d.index[ix.val[k] + 1]]
             df_sub == TakeRows(d.df, ix.val)
         IN  IF ~IsOk(ix)
             THEN ix
             ELSE IF ~IsOk(df_sub)
                  THEN df_sub
                  ELSE df_new(df_sub.val, ind_subset)

\* a call that waits for a lock its own thread holds: it never returns
Blocked == [kind |-> "Blocked", val |-> "lock_write"]

\* IMDataFrameElement::subset_inplace on a cell holding o.  The write guard
\* taken by write_inner is held to the end of the function, and set_both
\* starts with lock_write on the same cell: the lock is not reentrant, so
\* every call that gets as far as set_both waits forever.
df_subset_inplace(o, s) ==
    IF ~IsSome(o)
    THEN Out(Panic("accessing an empty slot"), o)
    ELSE LET d  == Unwrap(o)
             ix == select_info_elem_to_indices(s, Len(d.index))
             df_sub == TakeRows(d.df, ix.val)
         IN  IF ~IsOk(ix)
             THEN Out(ix, o)
             ELSE IF ~IsOk(df_sub)
                  THEN Out(df_sub, o)
                  ELSE Out(Blocked, o)

\* the selectors handed to the data-frame element
TblSels ==
    {SelectIndex(<<>>), SelectIndex(<<0>>), SelectIndex(<<1, 0>>), SelectIndex(<<MaxHeight>>),
     SelectFull}

TblSubsetInplace(h, s) ==
    /\ tbl_pc = "run" /\ tbl_op = TblNoOp /\ TblCreated(h)
    /\ \E out \in {df_subset_inplace(TblContent(h), s)} :
          /\ tbl_heap' = [tbl_heap EXCEPT ![tbl_cell[h]] = out.content]
          /\ tbl_op' = TblSelOp("subset_inplace", h, s, out.res)
          /\ tbl_pc' = IF out.res = Blocked THEN "blocked" ELSE tbl_pc
    /\ UNCHANGED tbl_cell
    /\ FrameTbl

(* IMAnnData, ad/mod.rs                                                    *)

CollNames == {"layers", "obsm", "obsp", "varm", "varp"}

\* IMAnnData::new on an element x and the contents of two table elements
ad_new(H, x, obs, var) ==
    LET H1 == DimNew(H, Height(obs.df))
        H2 == DimNew(H1, Height(var.df))
        n_obs  == Len(H1.dims)
        n_vars == Len(H2.dims)
        sh == get_shape(H2, x)
    IN  IF ~IsOk(sh)
        THEN WithHeap(sh, H)
        ELSE IF sh.val[1] # H2.dims[n_obs]
             THEN WithHeap(Err("ShapeMismatch"), H)
             ELSE IF Len(sh.val) < 2
                  THEN WithHeap(Panic("index out of bounds"), H)
                  ELSE IF sh.val[2] # H2.dims[n_vars]
                       THEN WithHeap(Err("ShapeMismatch"), H)
                       ELSE WithHeap(Ok([n_obs  |-> n_obs,
                                         n_vars |-> n_vars,
                                         x      |-> x,
                                         obs    |-> Some(obs),
                                         var    |-> Some(var),
                                         obsm   |-> AxisArrays("Row", n_obs, NoDim),
                                         obsp   |-> AxisArrays("Pairwise", n_obs, NoDim),
                                         varm   |-> AxisArrays("Row", n_vars, NoDim),
                                         varp   |-> AxisArrays("Pairwise", n_vars, NoDim),
                                         uns    |-> 1,
                                         layers |-> AxisArrays("RowColumn", n_obs, n_vars)]),
                                     H2)

\* IMAnnData::new_basic
new_basic(H, matrix, obs_names, var_names) ==
    IF Len(matrix.shape) < 2
    THEN WithHeap(Panic("index out of bounds"), H)
    ELSE IF matrix.shape[1] # Len(obs_names) \/ matrix.shape[2] # Len(var_names)
         THEN WithHeap(Err("ShapeMismatch"), H)
         ELSE LET obs == df_new(IndexFrame(obs_names), obs_names)
                  var == df_new(IndexFrame(var_names), var_names)
                  H1  == ElemNew(H, matrix)
              IN  ad_new(H1, Len(H1.elems), obs.val, var.val)

\* SelectInfoElem::bound_check
bound_check(sel, bound) ==
    IF sel.kind = "Index"
    THEN IF \E k \in 1..Len(sel.indices) : sel.indices[k] >= bound
         THEN Err("IndexOutOfBounds")
         ELSE Ok(0)
    ELSE IF sel.start > bound \/ (IsSome(sel.end) /\ Unwrap(sel.end) > bound)
         THEN Err("SliceOutOfBounds")
         ELSE Ok(0)

\* what IMAnnData::subset has built so far: the result of the latest step,
\* the heap, and the parts of the new aggregate
Building(res, H, out) == [res |-> res, heap |-> H, out |-> out]

NoParts == [obs |-> 0, var |-> 0, layers |-> 0, obsm |-> 0, obsp |-> 0, varm |-> 0, varp |-> 0, x |-> 0]

\* a step that builds a part: r is its result with the heap it leaves
Built(acc, part, r) ==
    Only({IF IsOk(v.res)
          THEN Building(v.res, v.heap, [acc.out EXCEPT ![part] = v.res.val])
          ELSE Building(v.res, acc.heap, acc.out) : v \in {r}})

\* the statements of IMAnnData::subset after the arity check, in order
subset_step(step, a, selection, acc) ==
    LET obs_sel == selection[1]
        var_sel == selection[2]
        H       == acc.heap
    IN  CASE step = 1  -> Building(bound_check(obs_sel, H.dims[a.n_obs]), H, acc.out)
          [] step = 2  -> Building(bound_check(var_sel, H.dims[a.n_vars]), H, acc.out)
          [] step = 3  -> Built(acc, "obs", WithHeap(df_subset(a.obs, obs_sel), H))
          [] step = 4  -> Built(acc, "var", WithHeap(df_subset(a.var, var_sel), H))
          [] step = 5  -> Built(acc, "layers", axis_subset(H, a.layers, selection))
          [] step = 6  -> Built(acc, "obsm", axis_subset(H, a.obsm, <<obs_sel, SelectFull>>))
          [] step = 7  -> Built(acc, "obsp", axis_subset(H, a.obsp, <<obs_sel, obs_sel>>))
          [] step = 8  -> Built(acc, "varm", axis_subset(H, a.varm, <<var_sel, SelectFull>>))
          [] step = 9  -> Built(acc, "varp", axis_subset(H, a.varp, <<var_sel, var_sel>>))
          [] step = 10 -> Built(acc, "x", elem_subset(H, a.x, selection))

RECURSIVE SubsetSteps(_, _, _, _)

\* the steps from step on; the first failure ends the call
SubsetSteps(step, a, selection, acc) ==
    IF step > 10 \/ ~IsOk(acc.res)
    THEN acc
    ELSE Only({SubsetSteps(step + 1, a, selection, n) : n \in {subset_step(step, a, selection, acc)}})

\* a clone that is a new, empty collection
uns_clone_NewEmpty(u) == u + 1

\* impl Clone for IMElementCollection: a handle of the same cell
uns_clone(u) == u

\* IMElementCollection::remove_data
remove_data(m, key) ==
    IF key \in DOMAIN m
    THEN Out(Ok(m[key]), MapRemove(m, key))
    ELSE Out(Err("KeyNotFound"), m)

\* the IMAnnData that IMAnnData::subset assembles from the parts built
SubsetAssembled(H, a, acc) ==
    IF ~IsOk(acc.res)
    THEN WithHeap(acc.res, H)
    ELSE LET H1 == DimNew(acc.heap, Height(acc.out.obs.df))
             H2 == DimNew(H1, Height(acc.out.var.df))
         IN  WithHeap(Ok([n_obs  |-> Len(H1.dims),
                          n_vars |-> Len(H2.dims),
                          x      |-> acc.out.x,
                          obs    |-> Some(acc.out.obs),
                          var    |-> Some(acc.out.var),
                          obsm   |-> acc.out.obsm,
                          obsp   |-> acc.out.obsp,
                          varm   |-> acc.out.varm,
                          varp   |-> acc.out.varp,
                          uns    |-> uns_clone(a.uns),
                          layers |-> acc.out.layers]),
                      H2)

\* IMAnnData::subset: a new aggregate; a failure drops whatever was built
ad_subset(H, a, selection) ==
    IF Len(selection) # 2
    THEN WithHeap(Err("SelectionArityMismatch"), H)
    ELSE Only({SubsetAssembled(H, a, acc) :
                 acc \in {SubsetSteps(1, a, selection, Building(Ok(0), H, NoParts))}})

\* IMArrayElement::set_data: the cell holds data afterwards
elem_set_data(H, e, data) == WithHeap(Ok(0), [H EXCEPT !.elems[e] = Some(data)])

\* impl Clone for InnerIMAxisArray: every field is cloned; the clone of a Dim
\* and the clone of a member are handles of the same cells
inner_clone(c) == [axis |-> c.axis, dim1 |-> c.dim1, dim2 |-> c.dim2, data |-> [k \in DOMAIN c.data |-> c.data[k]]]

\* IMAxisArrays::deep_clone: the content of the new cell
axis_deep_clone(c) == Ok(inner_clone(c))

\* IMElementCollection::add_data on a cell holding the map m
add_data(m, key, v) ==
    IF key \in DOMAIN m
    THEN Out(Err("KeyAlreadyExists"), m)
    ELSE Out(Ok(0), MapInsert(m, key, v))

\* IMArrayElement::subset_inplace: the cell holds the selection afterwards
elem_subset_inplace(H, e, s) ==
    IF ~IsSome(H.elems[e])
    THEN WithHeap(Panic("UninitializedAccess"), H)
    ELSE LET r == ArraySelect(Unwrap(H.elems[e]), s)
         IN  IF ~IsOk(r)
             THEN WithHeap(r, H)
             ELSE WithHeap(Ok(0), [H EXCEPT !.elems[e] = Some(r.val)])

\* Dim::try_set as IMAxisArrays::subset_inplace calls it.  Dim belongs to
\* the anndata crate: whether a Dim that has a size takes another one or
\* refuses it is not decided by this repository, so the caller of this
\* operator offers both (change); setting the size the Dim has succeeds.
dim_try_set(H, d, n, change) ==
    IF H.dims[d] = n
    THEN WithHeap(Ok(0), H)
    ELSE IF change
         THEN WithHeap(Ok(0), [H EXCEPT !.dims[d] = n])
         ELSE WithHeap(Err("DimensionCannotBeChanged"), H)

RECURSIVE InplaceMembers(_, _, _, _)

\* the loop of IMAxisArrays::subset_inplace over the members still to
\* visit; `?` leaves the loop at the first failure
InplaceMembers(H, data, todo, s) ==
    IF todo = <<>>
    THEN WithHeap(Ok(0), H)
    ELSE Only({IF ~IsOk(r.res) THEN r ELSE InplaceMembers(r.heap, data, Tail(todo), s) :
               r \in {elem_subset_inplace(H, data[Head(todo)], s)}})

\* the statements of IMAxisArrays::subset_inplace after dim1.try_set
InplaceFromDim2(H, c, s, order, change) ==
    IF c.dim2 = NoDim
    THEN InplaceMembers(H, c.data, order, s)
    ELSE IF Len(s) < 2
         THEN WithHeap(Err("SelectionArityMismatch"), H)
         ELSE LET i2 == select_info_elem_to_indices(s[2], H.dims[c.dim2])
              IN  IF ~IsOk(i2)
                  THEN WithHeap(i2, H)
                  ELSE Only({IF ~IsOk(t2.res) THEN t2 ELSE InplaceMembers(t2.heap, c.data, order, s) :
                             t2 \in {dim_try_set(H, c.dim2, Len(i2.val), change)}})

\* IMAxisArrays::subset_inplace on a collection holding c: the outcome and
\* the heap it leaves.  order is the order in which values_mut visits the
\* members of the HashMap.
axis_subset_inplace(H, c, s, order, change) ==
    IF Len(s) = 0
    THEN WithHeap(Panic("index out of bounds"), H)
    ELSE LET i1 == select_info_elem_to_indices(s[1], H.dims[c.dim1])
         IN  IF ~IsOk(i1)
             THEN WithHeap(i1, H)
             ELSE Only({IF ~IsOk(t1.res)
                        THEN t1
                        ELSE InplaceFromDim2(t1.heap, c, s, order, change) :
                        t1 \in {dim_try_set(H, c.dim1, Len(i1.val), change)}})
\* a subset in place that puts the matrix back when the step on obs fails
SubsetInplaceFromX_Rollback(H, a, selection) ==
    Only({IF ~IsOk(x.res)
          THEN x
          ELSE WithHeap(df_subset_inplace(a.obs, selection[1]).res, H) :
          x \in {elem_subset_inplace(H, a.x, selection)}})

\* the statements of IMAnnData::subset_inplace from "Subsetting X" on.  The
\* call on obs never returns Ok (df_subset_inplace), so the statements after
\* it are never reached and the call ends with the outcome of that one.
SubsetInplaceFromX(H, a, selection) ==
    Only({IF ~IsOk(x.res)
          THEN x
          ELSE WithHeap(df_subset_inplace(a.obs, selection[1]).res, x.heap) :
          x \in {elem_subset_inplace(H, a.x, selection)}})

\* an in-place subset that ends after the matrix
ad_subset_inplace_OnlyX(H, a, selection) ==
    IF Len(selection) # 2
    THEN WithHeap(Err("SelectionArityMismatch"), H)
    ELSE IF ~IsOk(bound_check(selection[1], H.dims[a.n_obs]))
         THEN WithHeap(bound_check(selection[1], H.dims[a.n_obs]), H)
         ELSE IF ~IsOk(bound_check(selection[2], H.dims[a.n_vars]))
              THEN WithHeap(bound_check(selection[2], H.dims[a.n_vars]), H)
              ELSE elem_subset_inplace(H, a.x, selection)

\* an in-place subset that leaves the bounds to the parts
ad_subset_inplace_NoBoundCheck(H, a, selection) ==
    IF Len(selection) # 2
    THEN WithHeap(Err("SelectionArityMismatch"), H)
    ELSE SubsetInplaceFromX(H, a, selection)

\* IMAnnData::subset_inplace: the outcome and the heap it leaves; the
\* aggregate's own fields are not assigned
ad_subset_inplace(H, a, selection) ==
    IF Len(selection) # 2
    THEN WithHeap(Err("SelectionArityMismatch"), H)
    ELSE IF ~IsOk(bound_check(selection[1], H.dims[a.n_obs]))
         THEN WithHeap(bound_check(selection[1], H.dims[a.n_obs]), H)
         ELSE IF ~IsOk(bound_check(selection[2], H.dims[a.n_vars]))
              THEN WithHeap(bound_check(selection[2], H.dims[a.n_vars]), H)
              ELSE SubsetInplaceFromX(H, a, selection)

\* IMAnnData::new_extended
new_extended(H, matrix, obs_names, var_names, obs_df, var_df) ==
    IF Len(matrix.shape) < 2
    THEN WithHeap(Panic("index out of bounds"), H)
    ELSE IF matrix.shape[1] # Len(obs_names) \/ matrix.shape[2] # Len(var_names)
         THEN WithHeap(Err("ShapeMismatch"), H)
         ELSE LET obs == df_new(obs_df, obs_names)
                  var == df_new(var_df, var_names)
                  H1  == ElemNew(H, matrix)
              IN  IF ~IsOk(obs)
                  THEN WithHeap(obs, H)
                  ELSE IF ~IsOk(var)
                       THEN WithHeap(var, H)
                       ELSE ad_new(H1, Len(H1.elems), obs.val, var.val)

(* RwSlot specification *)

InitSlot ==
    /\ SlotIdle
    /\ SelIdle
    /\ TblIdle
    /\ AdIdle
    /\ ThrIdle

NextSlot ==
    \/ \E h \in Handles, v \in Values : SlotNew(h, v)
    \/ \E h \in Handles : SlotNone(h)
    \/ \E h \in Handles : SlotIsNone(h)
    \/ \E h \in Handles : SlotRead(h)
    \/ \E h \in Handles, v \in Values : SlotWrite(h, v)
    \/ \E h \in Handles, v \in Values : SlotInsert(h, v)
    \/ \E h \in Handles : SlotExtract(h)
    \/ \E s, c \in Handles : SlotShallowClone(s, c)
    \/ \E s, c \in Handles : SlotDeepClone(s, c)
    \/ \E a, b \in Handles : SlotSwap(a, b)

SpecSlot == InitSlot /\ [][NextSlot]_vars

RECURSIVE Root(_)
\* the handle a chain of shallow clones started from
Root(h) == IF slot_origin[h].how = "shallow" THEN Root(slot_origin[h].from) ELSE h

SlotMutations == {"write_inner", "insert", "extract", "swap"}

\* the handles a call was made through, as the roots of their clone chains
OperandRoots(op) == {Root(op.h)} \cup (IF op.op = "swap" THEN {Root(op.h2)} ELSE {})

\* C3: a deep clone c of s starts with the content s has at the clone (an
\* empty s gives an empty c); afterwards no write, insert, extract or swap
\* made through s or its shallow clones changes what c holds, and none made
\* through c or its shallow clones changes what s holds.
C3_DeepCloneIsolated ==
    [][\A c \in Handles :
        /\ (~Created(c) /\ slot_op'.op = "deep_clone" /\ slot_op'.h2 = c)
              => Content(c)' = Content(slot_op'.h)
        /\ (Created(c) /\ slot_origin[c].how = "deep" /\ slot_op'.op \in SlotMutations)
              => /\ Root(c) \notin OperandRoots(slot_op')
                      => Content(c)' = Content(c)
                 /\ Root(slot_origin[c].from) \notin OperandRoots(slot_op')
                      => Content(slot_origin[c].from)' = Content(slot_origin[c].from)
      ]_vars

C3_Witness ==
    \E c \in Handles :
        /\ slot_origin[c].how = "deep"
        /\ slot_op.op \in {"write_inner", "insert", "extract"}
        /\ IsOk(slot_op.res)
        /\ Root(slot_op.h) = Root(slot_origin[c].from)
        /\ slot_op.h # slot_origin[c].from
        /\ Content(c) # Content(slot_origin[c].from)

\* C4: a handle obtained by shallow_clone (or Clone::clone) and the handle it
\* was cloned from observe the same content, value or empty, in every state.
C4_ShallowCloneShares ==
    \A c \in Handles :
        slot_origin[c].how = "shallow" => Content(c) = Content(slot_origin[c].from)

C4_Witness ==
    \E c \in Handles :
        /\ slot_origin[c].how = "shallow"
        /\ slot_op.op = "insert"
        /\ slot_op.h = slot_origin[c].from
        /\ IsSome(slot_op.res.val)
        /\ slot_op.res.val # Content(c)

\* handles a and b point to one cell
SameCell(a, b) == slot_cell[a] = slot_cell[b]

\* the latest call went through a handle of c's cell
Through(op, c) == SameCell(op.h, c)

\* what every handle of a cell observes around a call: extract returns the
\* content and empties the cell, insert returns the previous content and
\* fills it, and on an empty cell is_none says so and read_inner and
\* write_inner panic and leave it empty
EmptySlotCalls(c) ==
    /\ (slot_op'.op = "extract" /\ Through(slot_op', c))
          => slot_op'.res = Ok(Content(c)) /\ Content(c)' = None
    /\ (slot_op'.op = "insert" /\ Through(slot_op', c))
          => /\ slot_op'.res = Ok(Content(c)) /\ IsSome(Content(c)')
             /\ \A d \in Handles : (Created(d) /\ SameCell(d, c)) => Content(d)' = Content(c)'
    /\ ~IsSome(Content(c))
          => /\ (slot_op'.op = "is_none" /\ Through(slot_op', c)) => slot_op'.res = Ok(TRUE)
             /\ (slot_op'.op \in {"read_inner", "write_inner"} /\ Through(slot_op', c))
                   => slot_op'.res.kind = "Panic" /\ Content(c)' = None

\* C17 as stated: after an extract the cell is empty for every handle of it,
\* is_none is true and every read and write through them panics, until an
\* insert through one of them, after which all of them observe the inserted
\* value; insert returns the previous content and extract of an empty cell
\* returns none and leaves it empty.
C17_EmptyUntilInsert_AsStated ==
    [][\A c \in Handles : Created(c) =>
          /\ EmptySlotCalls(c)
          /\ (~IsSome(Content(c)) /\ IsSome(Content(c)'))
                => (slot_op'.op = "insert" /\ Through(slot_op', c))
      ]_vars

\* C17 amended: as stated, except that an empty cell is also filled by a
\* swap with a handle of another cell that holds a value.
C17_EmptyUntilInsertOrSwap ==
    [][\A c \in Handles : Created(c) =>
          /\ EmptySlotCalls(c)
          /\ (~IsSome(Content(c)) /\ IsSome(Content(c)'))
                => \/ slot_op'.op = "insert" /\ Through(slot_op', c)
                   \/ /\ slot_op'.op = "swap"
                      /\ \/ SameCell(slot_op'.h, c) /\ IsSome(Content(slot_op'.h2))
                         \/ SameCell(slot_op'.h2, c) /\ IsSome(Content(slot_op'.h))
      ]_vars

\* a value was extracted through one handle and a shallow clone of it
\* observes the empty cell
C17_Witness ==
    \E c \in Handles :
        /\ slot_op.op = "extract" /\ IsSome(slot_op.res.val)
        /\ slot_origin[c].how = "shallow" /\ slot_origin[c].from = slot_op.h
        /\ ~IsSome(Content(c))

\* C29: for two slots with distinct storage, a.swap(b) exchanges their
\* contents, emptiness included: afterwards every handle of a's cell finds
\* what b held, every handle of b's cell finds what a held and every other
\* cell is as it was; a second swap of the same pair restores both.
C29_SwapExchanges ==
    /\ [](\A a, b \in Handles :
             (Created(a) /\ Created(b) /\ slot_cell[a] # slot_cell[b])
                => mem_swap(mem_swap(slot_heap, slot_cell[a], slot_cell[b]),
                            slot_cell[a], slot_cell[b]) = slot_heap)
    /\ [][(slot_op'.op = "swap" /\ slot_cell[slot_op'.h] # slot_cell[slot_op'.h2])
            => /\ slot_op'.res = Ok(0)
               /\ slot_cell' = slot_cell
               /\ \A h \in Handles :
                     Created(h) =>
                        Content(h)' = IF slot_cell[h] = slot_cell[slot_op'.h]
                                      THEN Content(slot_op'.h2)
                                      ELSE IF slot_cell[h] = slot_cell[slot_op'.h2]
                                           THEN Content(slot_op'.h)
                                           ELSE Content(h)
      ]_vars

\* an empty slot with a shallow clone was swapped with a full one
C29_Witness ==
    /\ slot_op.op = "swap" /\ slot_op.res = Ok(0)
    /\ IsSome(Content(slot_op.h)) /\ ~IsSome(Content(slot_op.h2))
    /\ \E c \in Handles :
          /\ c # slot_op.h /\ Created(c) /\ slot_cell[c] = slot_cell[slot_op.h]

----------------------------------------------------------------------------
\* C31: with no guard held by another thread, a.swap(b) returns for every
\* pair of handles, also when b is a shallow clone of a, and in that case
\* the content of the one cell they share is as before.
C31_SwapReturns ==
    [][slot_op'.op = "swap"
         => /\ slot_op'.res = Ok(0) /\ slot_pc' = "run"
            /\ slot_cell[slot_op'.h] = slot_cell[slot_op'.h2] => slot_heap' = slot_heap]_vars
(* RwSlot::swap run by two threads, one statement at a time *)

Threads == {1, 2}

\* a thread between two calls
ThrNone == [op |-> "none", pc |-> "idle", self |-> 0, other |-> 0]

\* the two guards taken in the order of their cells
guard_order_ByCell(a, b) == IF slot_cell[a] <= slot_cell[b] THEN <<a, b>> ELSE <<b, a>>

\* let mut self_lock = self.lock_write(); let mut other_lock = other.lock_write();
guard_order(a, b) == <<a, b>>

FrameSwap == UNCHANGED <<varsSel, varsTbl, varsAd, slot_cell, slot_origin, slot_op, slot_pc>>

\* thread t calls a.swap(b)
SwapCall(t, a, b) ==
    /\ thr[t].pc = "idle"
    /\ thr' = [thr EXCEPT ![t] = [op |-> "swap", pc |-> "first", self |-> a, other |-> b]]
    /\ UNCHANGED <<locks, slot_heap>>
    /\ FrameSwap

\* the first lock_write returns once the guard is free
SwapLockFirst(t) ==
    /\ thr[t].pc = "first"
    /\ \E c \in {slot_cell[guard_order(thr[t].self, thr[t].other)[1]]} :
          /\ locks[c] = 0
          /\ locks' = [locks EXCEPT ![c] = t]
    /\ thr' = [thr EXCEPT ![t].pc = "second"]
    /\ UNCHANGED slot_heap
    /\ FrameSwap

\* the second lock_write, made while the first guard is held
SwapLockSecond(t) ==
    /\ thr[t].pc = "second"
    /\ \E c \in {slot_cell[guard_order(thr[t].self, thr[t].other)[2]]} :
          /\ locks[c] = 0
          /\ locks' = [locks EXCEPT ![c] = t]
    /\ thr' = [thr EXCEPT ![t].pc = "swap"]
    /\ UNCHANGED slot_heap
    /\ FrameSwap

\* std::mem::swap under both guards
SwapMem(t) ==
    /\ thr[t].pc = "swap"
    /\ slot_heap' = mem_swap(slot_heap, slot_cell[thr[t].self], slot_cell[thr[t].other])
    /\ thr' = [thr EXCEPT ![t].pc = "drop"]
    /\ UNCHANGED locks
    /\ FrameSwap

\* end of the function: both guards are dropped
SwapDrop(t) ==
    /\ thr[t].pc = "drop"
    /\ locks' = [c \in DOMAIN locks |-> IF locks[c] = t THEN 0 ELSE locks[c]]
    /\ thr' = [thr EXCEPT ![t] = ThrNone]
    /\ UNCHANGED slot_heap
    /\ FrameSwap

\* every handle is a slot of its own, full or empty
InitSwap ==
    /\ slot_cell = [h \in Handles |-> h]
    /\ slot_heap \in [Handles -> {None} \cup {Some(v) : v \in Values}]
    /\ slot_origin = [h \in Handles |-> NoOrigin]
    /\ slot_op = NoOp
    /\ slot_pc = "run"
    /\ thr = [t \in Threads |-> ThrNone]
    /\ locks = [h \in Handles |-> 0]
    /\ SelIdle
    /\ TblIdle
    /\ AdIdle

NextSwap ==
    \/ \E t \in Threads, a, b \in Handles : SwapCall(t, a, b)
    \/ \E t \in Threads : SwapLockFirst(t)
    \/ \E t \in Threads : SwapLockSecond(t)
    \/ \E t \in Threads : SwapMem(t)
    \/ \E t \in Threads : SwapDrop(t)

SpecSwap == InitSwap /\ [][NextSwap]_vars

\* each of the two threads holds the guard the other one waits for
SwapDeadlock ==
    /\ thr[1].pc = "second" /\ thr[2].pc = "second"
    /\ thr[1].self # thr[1].other
    /\ locks[slot_cell[thr[1].other]] = 2
    /\ locks[slot_cell[thr[2].other]] = 1

\* C30: swap takes the write guards of its operands in call order, self
\* first and other second, with the first held while it waits for the
\* second; once two threads running a.swap(b) and b.swap(a) each hold one
\* guard and wait for the other, no step of either is possible any more.
C30_GuardsInCallOrder ==
    /\ [](\A t \in Threads, c \in Handles :
             locks[c] = t <=>
                \/ thr[t].pc \in {"second", "swap", "drop"} /\ slot_cell[thr[t].self] = c
                \/ thr[t].pc \in {"swap", "drop"} /\ slot_cell[thr[t].other] = c)
    /\ [][SwapDeadlock => UNCHANGED vars]_vars

\* thread 1 runs a.swap(b), thread 2 runs b.swap(a), each holds its self
C30_Witness ==
    /\ SwapDeadlock
    /\ thr[1].self = thr[2].other /\ thr[1].other = thr[2].self
    /\ locks[slot_cell[thr[1].self]] = 1 /\ locks[slot_cell[thr[2].self]] = 2

----------------------------------------------------------------------------
(* Data-frame element specification *)

InitTbl ==
    /\ TblIdle
    /\ SelIdle
    /\ SlotIdle
    /\ AdIdle
    /\ ThrIdle

NextTbl ==
    \/ \E h \in TblHandles, df \in DfInputs, index \in ColInputs : TblNew(h, df, index)
    \/ \E s, c \in TblHandles : TblClone(s, c)
    \/ \E h \in TblHandles, df \in DfInputs, index \in ColInputs : TblSetBoth(h, df, index)
    \/ \E h \in TblHandles, df \in DfInputs : TblSetData(h, df)
    \/ \E h \in TblHandles, index \in ColInputs : TblSetIndex(h, index)
    \/ \E h \in TblHandles, name \in ColNames, col \in ColInputs : TblAttachColumn(h, name, col)
    \/ \E h \in TblHandles, name \in ColNames : TblRemoveColumn(h, name)
    \/ \E h \in TblHandles, name \in ColNames, col \in ColInputs : TblSetColumn(h, name, col)
    \/ \E h \in TblHandles : TblGet(h)
    \/ \E h \in TblHandles, s \in TblSels : TblSubsetInplace(h, s)
    \/ TblReturn

SpecTbl == InitTbl /\ [][NextTbl]_vars

\* C1 as stated: construction succeeds exactly when the table's height
\* equals the label list's length, and an element that is built holds the
\* table and label list that were supplied.
C1_NewIffEqualHeight_AsStated ==
    tbl_op.op = "new" =>
        /\ IsOk(tbl_op.res) <=> Height(tbl_op.df) = Len(tbl_op.col)
        /\ IsOk(tbl_op.res) => TblContent(tbl_op.h) = Some(Inner(tbl_op.df, tbl_op.col))
        /\ ~IsOk(tbl_op.res) => ~TblCreated(tbl_op.h)

\* C1 amended: construction succeeds exactly when the table's height is 0 or
\* equals the label list's length.  A table of non-zero height is stored as
\* supplied; a table of height 0 is replaced by the one-column table "index"
\* built from the labels; the label list is stored as supplied, so the stored
\* height equals the stored label count.  Every other pair panics and builds
\* no element.
C1_NewIffEqualHeight ==
    tbl_op.op = "new" =>
        /\ IsOk(tbl_op.res) <=> (Height(tbl_op.df) = 0 \/ Height(tbl_op.df) = Len(tbl_op.col))
        /\ (IsOk(tbl_op.res) /\ Height(tbl_op.df) # 0)
              => TblContent(tbl_op.h) = Some(Inner(tbl_op.df, tbl_op.col))
        /\ (IsOk(tbl_op.res) /\ Height(tbl_op.df) = 0)
              => TblContent(tbl_op.h) = Some(Inner(IndexFrame(tbl_op.col), tbl_op.col))
        /\ IsOk(tbl_op.res)
              => Height(Unwrap(TblContent(tbl_op.h)).df) = Len(Unwrap(TblContent(tbl_op.h)).index)
        /\ ~IsOk(tbl_op.res) => (tbl_op.res.kind = "Panic" /\ ~TblCreated(tbl_op.h))

C1_Witness ==
    /\ tbl_op.op = "new"
    /\ IsOk(tbl_op.res)
    /\ Height(tbl_op.df) = 0
    /\ DOMAIN tbl_op.df # {}
    /\ Len(tbl_op.col) = 2
    /\ TblContent(tbl_op.h) = Some(Inner(IndexFrame(tbl_op.col), tbl_op.col))

\* C10: attach_column with a column whose length differs from the table's
\* height returns an error, and the table and label list seen through every
\* handle of the element are the same after the call as before.
C10_AttachMismatchRejected ==
    [][(/\ tbl_op'.op = "attach_column"
        /\ Len(tbl_op'.col) # Height(Unwrap(TblContent(tbl_op'.h)).df))
          => /\ tbl_op'.res.kind = "Err"
             /\ \A c \in TblHandles : TblCreated(c) => TblContent(c)' = TblContent(c)
      ]_vars

C10_Witness ==
    /\ tbl_op.op = "attach_column"
    /\ tbl_op.res.kind = "Err"
    /\ tbl_op.h = 2
    /\ Len(tbl_op.col) = 1
    /\ TblContent(1) = Some(Inner(MkFrame({"index", "x"}, 2, 1), ColData(2, 2)))

\* C15: whatever mutating calls were made on a data-frame element, and
\* whether they succeeded or failed, the table read through any handle of
\* it is as tall as the label list is long.
C15_HeightEqualsIndexLength ==
    \A h \in TblHandles :
        TblCreated(h) => Height(Unwrap(TblContent(h)).df) = Len(Unwrap(TblContent(h)).index)

\* C16: set_both succeeds and commits both halves for every pair of equal
\* height, whatever the element's height, and fails without a change for
\* every other pair; set_data and set_index succeed exactly when the new
\* half is as long as the half that is kept, and otherwise change nothing.
C16_SettersValidateNewPair ==
    [][tbl_op'.op \in {"set_both", "set_data", "set_index"} =>
          LET o     == Unwrap(TblContent(tbl_op'.h))
              after == tbl_heap'[tbl_cell'[tbl_op'.h]]
              df    == tbl_op'.df
              index == tbl_op'.col
              fits  == CASE tbl_op'.op = "set_both"  -> Height(df) = Len(index)
                         [] tbl_op'.op = "set_data"  -> Height(df) = Len(o.index)
                         [] tbl_op'.op = "set_index" -> Len(index) = Height(o.df)
              new   == CASE tbl_op'.op = "set_both"  -> Inner(df, index)
                         [] tbl_op'.op = "set_data"  -> Inner(df, o.index)
                         [] tbl_op'.op = "set_index" -> Inner(o.df, index)
          IN  /\ IsOk(tbl_op'.res) <=> fits
              /\ after = IF fits THEN Some(new) ELSE Some(o)
      ]_vars

\* C20: subset_inplace with a selector that is valid against the label
\* list succeeds, and afterwards the table holds exactly the former rows at
\* the selected positions, in selector order, and the label list the former
\* labels at those positions, whatever their number.
C20_SubsetInplaceTakesRows ==
    [][(/\ tbl_op'.op = "subset_inplace"
        /\ IsOk(select_info_elem_to_indices(tbl_op'.sel, Len(Unwrap(TblContent(tbl_op'.h)).index))))
          => LET o == Unwrap(TblContent(tbl_op'.h))
                 p == select_info_elem_to_indices(tbl_op'.sel, Len(o.index)).val
             IN  /\ IsOk(tbl_op'.res)
                 /\ tbl_heap'[tbl_cell'[tbl_op'.h]] =
                       Some(Inner([c \in DOMAIN o.df |-> [k \in 1..Len(p) |-> o.df[c][p[k] + 1]]],
                                  [k \in 1..Len(p) |-> o.index[p[k] + 1]]))
      ]_vars

\* C21: run by one thread while no guard is held, subset_inplace of the
\* data-frame element and the in-place subset of the aggregate always
\* return, with success or an error: no call waits for a lock that its own
\* thread holds.
C21_SubsetInplaceReturns ==
    [][/\ tbl_op'.op = "subset_inplace" => tbl_op'.res # Blocked /\ tbl_pc' # "blocked"
       /\ ad_op'.op = "subset_inplace" => ad_op'.res # Blocked]_vars
(* IMAnnData specification: one aggregate built by new_basic, then calls   *)
(* made one at a time; Return ends a call and releases what it returned    *)

\* the shapes of the arrays offered to the collections
ShapeInputs ==
    {<<a>> : a \in 1..MaxDim}
    \cup {<<a, b>> : a, b \in 1..MaxDim}
    \cup {<<a, b, 1>> : a, b \in 1..MaxDim}

\* SelectIndex(<<MaxDim>>) is beyond every axis of the aggregate
AdSels ==
    {SelectIndex(<<>>), SelectIndex(<<0>>), SelectIndex(<<1, 0>>), SelectIndex(<<MaxDim>>),
     SelectFull, SelectSlice(1, None, 1)}

\* the selections handed to IMAnnData::subset
AdSelLists ==
    {<<a, b>> : a, b \in AdSels}
    \cup {<<>>, <<SelectFull>>, <<SelectFull, SelectFull, SelectFull>>}

\* the selections handed to a collection's or an element's subset
AxisSelLists ==
    {<<>>,
     <<SelectIndex(<<0>>)>>,
     <<SelectIndex(<<0>>), SelectFull>>,
     <<SelectIndex(<<1, 0>>), SelectIndex(<<0>>)>>,
     <<SelectFull, SelectIndex(<<MaxDim>>)>>,
     <<SelectIndex(<<MaxDim>>), SelectFull>>,
     <<SelectSlice(1, None, 1), SelectSlice(1, None, 1)>>,
     <<SelectFull, SelectFull, SelectFull>>}

\* the keys tried on a collection
AddKeys(coll) == IF coll = "layers" THEN Keys ELSE {"k1"}

\* most members the collections of the aggregate hold together
MaxElems == Cardinality(Keys)

\* one aggregate built by new_basic, nothing called on it yet
InitAggregate ==
    /\ \E r, c \in 0..MaxDim :
          LET b == new_basic([dims |-> <<>>, elems |-> <<>>], MkArray(0, <<r, c>>),
                             ColData(1, r), ColData(2, c))
          IN  /\ ad = b.res.val
              /\ ad_dims = b.heap.dims
              /\ ad_elems = b.heap.elems
    /\ ad_op = AdNoOp
    /\ ad_gone = {}
    /\ ad_uns = <<<<>>>>
    /\ ad_held = <<>>
    /\ SelIdle
    /\ SlotIdle
    /\ TblIdle

InitAd == InitAggregate /\ ThrIdle

\* obsm().add_array(key, IMArrayElement::new(data)), add_layer(key, ..) etc.
AdAddArray(coll, key, shape) ==
    /\ ad_op = AdNoOp
    /\ Len(ad_elems) - 1 < MaxElems
    /\ LET H1 == ElemNew(Heap, MkArray(1, shape))
           r  == add_array(H1, ad[coll], key, Len(H1.elems))
       IN  /\ ad' = [ad EXCEPT ![coll] = r.content]
           /\ ad_elems' = IF IsOk(r.res) THEN H1.elems ELSE ad_elems
           /\ ad_op' = AdOp("add_array", coll, key, shape, <<>>, r.res)
           /\ ad_gone' = IF IsOk(r.res) THEN {} ELSE ad_gone
    /\ UNCHANGED ad_dims
    /\ FrameAd

AdGetArray(coll, key) ==
    /\ ad_op = AdNoOp
    /\ LET r == get_array(Heap, ad[coll], key)
       IN  /\ ad_elems' = r.heap.elems
           /\ ad_op' = AdOp("get_array", coll, key, <<>>, <<>>, r.res)
    /\ UNCHANGED <<ad, ad_dims, ad_gone>>
    /\ FrameAd

AdGetArrayShallow(coll, key) ==
    /\ ad_op = AdNoOp
    /\ ad_op' = AdOp("get_array_shallow", coll, key, <<>>, <<>>, get_array_shallow(ad[coll], key))
    /\ UNCHANGED <<ad, ad_dims, ad_elems, ad_gone>>
    /\ FrameAd

AdRemoveArray(coll, key) ==
    /\ ad_op = AdNoOp
    /\ LET r == remove_array(ad[coll], key)
       IN  /\ ad' = [ad EXCEPT ![coll] = r.content]
           /\ ad_op' = AdOp("remove_array", coll, key, <<>>, <<>>, r.res)
           /\ ad_gone' = IF ~IsOk(r.res) THEN ad_gone ELSE IF coll = "layers" THEN {key} ELSE {}
    /\ UNCHANGED <<ad_dims, ad_elems>>
    /\ FrameAd

\* the heap a call leaves and its record; the aggregate is only lent to it
AdCalled(name, coll, key, s, r) ==
    /\ ad_dims' = r.heap.dims
    /\ ad_elems' = r.heap.elems
    /\ ad_op' = AdOp(name, coll, key, <<>>, s, r.res)
    /\ UNCHANGED <<ad, ad_gone>>
    /\ FrameAd

AdSubset(selection) ==
    /\ ad_op = AdNoOp
    /\ \E r \in {ad_subset(Heap, ad, selection)} : AdCalled("subset", "", "", selection, r)

\* a call that blocks never returns
AdSubsetInplace(selection) ==
    /\ ad_op = AdNoOp
    /\ \E r \in {ad_subset_inplace(Heap, ad, selection)} :
          AdCalled("subset_inplace", "", "", selection, r)

AdAxisSubset(coll, s) ==
    /\ ad_op = AdNoOp
    /\ \E r \in {axis_subset(Heap, ad[coll], s)} : AdCalled("axis_subset", coll, "", s, r)

AdDfSubset(t, sel) ==
    /\ ad_op = AdNoOp
    /\ \E r \in {df_subset(ad[t], sel)} : AdCalled("df_subset", t, "", <<sel>>, WithHeap(r, Heap))

\* the element a (collection, key) pair names; "x" names the matrix
Receiver(coll, key) == IF coll = "x" THEN ad.x ELSE ad[coll].data[key]

AdElemSubset(coll, key, s) ==
    /\ ad_op = AdNoOp
    /\ IF coll = "x" THEN key = "k1" ELSE key \in DOMAIN ad[coll].data
    /\ \E r \in {elem_subset(Heap, Receiver(coll, key), s)} : AdCalled("elem_subset", coll, key, s, r)

\* the elements of a collection, in visiting order
MemberIds(c) == [i \in 1..Len(KeysOf(c.data)) |-> c.data[KeysOf(c.data)[i]]]

\* the elements the aggregate holds: the matrix, then the members
Owned(a) ==
    <<a.x>> \o MemberIds(a.layers) \o MemberIds(a.obsm) \o MemberIds(a.obsp)
            \o MemberIds(a.varm) \o MemberIds(a.varp)

\* the place of cell e among the cells listed in owned
NewId(owned, e) ==
    LET first == CHOOSE i \in 1..Len(owned) :
                    owned[i] = e /\ \A j \in 1..(i - 1) : owned[j] # e
    IN  Cardinality({owned[j] : j \in 1..first})

Renamed(owned, c) == [c EXCEPT !.data = [k \in DOMAIN c.data |-> NewId(owned, c.data[k])]]

\* the caller drops what the call returned: the cells nothing refers to any
\* more are freed, the cells kept are numbered in the order of Owned
AdReturn ==
    /\ ad_op # AdNoOp
    /\ ad_op.res # Blocked
    /\ ad_op' = AdNoOp
    /\ LET owned == Owned(ad)
           live  == {owned[j] : j \in 1..Len(owned)}
       IN  IF owned = [n \in 1..Len(owned) |-> n]
           THEN /\ ad_elems' = SubSeq(ad_elems, 1, Len(owned))
                /\ ad' = ad
           ELSE /\ ad_elems' = [n \in 1..Cardinality(live) |->
                                   ad_elems[CHOOSE e \in live : NewId(owned, e) = n]]
                /\ ad' = [ad EXCEPT !.x = NewId(owned, ad.x),
                                    !.layers = Renamed(owned, ad.layers),
                                    !.obsm = Renamed(owned, ad.obsm),
                                    !.obsp = Renamed(owned, ad.obsp),
                                    !.varm = Renamed(owned, ad.varm),
                                    !.varp = Renamed(owned, ad.varp)]
    /\ ad_dims' = SubSeq(ad_dims, 1, ad.n_vars)
    /\ UNCHANGED ad_gone
    /\ FrameAd

NextAd ==
    \/ \E coll \in CollNames, shape \in ShapeInputs : \E key \in AddKeys(coll) : AdAddArray(coll, key, shape)
    \/ \E coll \in CollNames : \E key \in AddKeys(coll) : AdGetArray(coll, key)
    \/ \E coll \in CollNames : \E key \in AddKeys(coll) : AdGetArrayShallow(coll, key)
    \/ \E coll \in CollNames : \E key \in AddKeys(coll) : AdRemoveArray(coll, key)
    \/ \E selection \in AdSelLists : AdSubset(selection)
    \/ \E selection \in AdSelLists : AdSubsetInplace(selection)
    \/ \E coll \in CollNames, s \in AxisSelLists : AdAxisSubset(coll, s)
    \/ \E t \in {"obs", "var"}, sel \in AdSels : AdDfSubset(t, sel)
    \/ \E coll \in CollNames \cup {"x"}, key \in Keys, s \in AxisSelLists : AdElemSubset(coll, key, s)
    \/ AdReturn

SpecAd == InitAd /\ [][NextAd]_vars

\* a call of the named operation starts in this step
AdCall(names) == ad_op = AdNoOp /\ ad_op'.op \in names

\* the receiver's cells are what they were; cells may have been added
HeapKept ==
    /\ Len(ad_dims') >= Len(ad_dims) /\ SubSeq(ad_dims', 1, Len(ad_dims)) = ad_dims
    /\ Len(ad_elems') >= Len(ad_elems) /\ SubSeq(ad_elems', 1, Len(ad_elems)) = ad_elems

\* the second extent an axis kind compares: dim2 for RowColumn, dim1 for Pairwise
SecondExtent(c) == IF c.axis = "RowColumn" THEN ad_dims[c.dim2] ELSE ad_dims[c.dim1]

\* the shape the axis kind asks for, taken exactly
ExactShape(c) == IF c.axis = "Row" THEN <<ad_dims[c.dim1]>> ELSE <<ad_dims[c.dim1], SecondExtent(c)>>

\* the leading extents of shape are those the axis kind asks for
LeadingMatch(c, shape) ==
    /\ shape[1] = ad_dims[c.dim1]
    /\ c.axis # "Row" => Len(shape) >= 2 /\ shape[2] = SecondExtent(c)

\* C2 as stated: an add under an absent key succeeds if and only if the
\* element's shape is exactly (dim1) for Row, (dim1, dim2) for RowColumn and
\* (dim1, dim1) for Pairwise; a failed add leaves the collection unchanged.
C2_AddIffExactShape ==
    [][AdCall({"add_array"}) /\ ad_op'.key \notin DOMAIN ad[ad_op'.coll].data
       => /\ IsOk(ad_op'.res) <=> ad_op'.shape = ExactShape(ad[ad_op'.coll])
          /\ ~IsOk(ad_op'.res) => ad' = ad /\ ad_elems' = ad_elems /\ ad_dims' = ad_dims]_vars

\* C2, amended: an add under an absent key succeeds if and only if the
\* leading extents of the element's shape match: shape[0] = dim1 for Row,
\* shape[0] = dim1 and shape[1] = dim2 for RowColumn, shape[0] = shape[1] =
\* dim1 for Pairwise; further extents are not compared.  A success adds the
\* key with the element and nothing else; a failure leaves the key set, the
\* members and the dims unchanged; the failure is a panic exactly when a
\* one-dimensional element whose extent is dim1 is offered to a RowColumn or
\* Pairwise collection, and a ShapeMismatch error otherwise.
C2_AddIffLeadingExtentsMatch ==
    [][AdCall({"add_array"}) /\ ad_op'.key \notin DOMAIN ad[ad_op'.coll].data
       => LET c     == ad[ad_op'.coll]
              shape == ad_op'.shape
          IN  /\ IsOk(ad_op'.res) <=> LeadingMatch(c, shape)
              /\ IsOk(ad_op'.res) =>
                    /\ ad' = [ad EXCEPT ![ad_op'.coll].data = MapInsert(@, ad_op'.key, Len(ad_elems'))]
                    /\ ad_elems' = Append(ad_elems, Some(MkArray(1, shape)))
                    /\ ad_dims' = ad_dims
              /\ ~IsOk(ad_op'.res) =>
                    /\ ad' = ad /\ ad_elems' = ad_elems /\ ad_dims' = ad_dims
                    /\ ad_op'.res.kind = "Panic" <=>
                          (c.axis # "Row" /\ shape = <<ad_dims[c.dim1]>>)
                    /\ ad_op'.res.kind = "Err" => ad_op'.res.val = "ShapeMismatch"]_vars

\* an add under a new key was refused for its shape by a RowColumn
\* collection that holds a member
C2_Witness ==
    /\ ad_op.op = "add_array" /\ ad_op.res = Err("ShapeMismatch")
    /\ ad[ad_op.coll].axis = "RowColumn"
    /\ ad_op.key \notin DOMAIN ad[ad_op.coll].data
    /\ DOMAIN ad[ad_op.coll].data # {}

\* the positions a selector picks on an axis of length n
Picks(sel, n) == select_info_elem_to_indices(sel, n)

\* the entries of array b are those of array a at the picked rows and columns
Selected(b, a, R, C) ==
    /\ b.shape = <<Len(R), Len(C)>>
    /\ \A i \in 1..Len(R), j \in 1..Len(C) : b.at[<<i, j>>] = a.at[<<R[i] + 1, C[j] + 1>>]

\* C7: for every aggregate and every pair of selectors valid against
\* (n_obs, n_vars), subset returns a new aggregate whose n_obs and n_vars
\* are the numbers of picked rows and columns, whose row and column labels
\* are the original labels at the picked positions in order, and whose
\* matrix and layers hold the original entries at the picked coordinates.
C7_SubsetResult ==
    (/\ ad_op.op = "subset" /\ Len(ad_op.sel) = 2
     /\ IsOk(Picks(ad_op.sel[1], ad_dims[ad.n_obs]))
     /\ IsOk(Picks(ad_op.sel[2], ad_dims[ad.n_vars])))
    => LET R == Picks(ad_op.sel[1], ad_dims[ad.n_obs]).val
           C == Picks(ad_op.sel[2], ad_dims[ad.n_vars]).val
           b == ad_op.res.val
       IN  /\ IsOk(ad_op.res)
           /\ ad_dims[b.n_obs] = Len(R) /\ ad_dims[b.n_vars] = Len(C)
           /\ Unwrap(b.obs).index = [k \in 1..Len(R) |-> Unwrap(ad.obs).index[R[k] + 1]]
           /\ Unwrap(b.var).index = [k \in 1..Len(C) |-> Unwrap(ad.var).index[C[k] + 1]]
           /\ Selected(Unwrap(ad_elems[b.x]), Unwrap(ad_elems[ad.x]), R, C)
           /\ DOMAIN b.layers.data = DOMAIN ad.layers.data
           /\ \A k \in DOMAIN ad.layers.data :
                 Selected(Unwrap(ad_elems[b.layers.data[k]]), Unwrap(ad_elems[ad.layers.data[k]]), R, C)

\* C8: the out-of-place subset of the aggregate, of a collection, of a table
\* and of an array element leaves its receiver as it was, whether the call
\* succeeds or fails: the aggregate with its key sets and tables, its dims
\* and the value of every element it holds.
C8_SubsetLeavesReceiver ==
    [][AdCall({"subset", "axis_subset", "df_subset", "elem_subset"})
       => ad' = ad /\ HeapKept]_vars

\* a subset of an aggregate with a layer returned an aggregate of another
\* number of rows
C8_Witness ==
    /\ ad_op.op = "subset" /\ IsOk(ad_op.res)
    /\ DOMAIN ad.layers.data # {}
    /\ ad_dims[ad_op.res.val.n_obs] # ad_dims[ad.n_obs]

\* C9: remove_layer of a present key returns the removed element and takes
\* the key, and only it, from the key set; while the key stays removed,
\* get_layer, get_layer_shallow and another remove_layer fail with
\* KeyNotFound and leave the layers as they are.
C9_RemovedLayerNotFound ==
    [][/\ (AdCall({"remove_array"}) /\ ad_op'.coll = "layers"
             /\ ad_op'.key \in DOMAIN ad.layers.data)
          => /\ ad_op'.res = Ok(ad.layers.data[ad_op'.key])
             /\ DOMAIN ad'.layers.data = DOMAIN ad.layers.data \ {ad_op'.key}
             /\ \A k \in DOMAIN ad'.layers.data : ad'.layers.data[k] = ad.layers.data[k]
             /\ ad_elems' = ad_elems
       /\ (AdCall({"get_array", "get_array_shallow", "remove_array"}) /\ ad_op'.coll = "layers"
             /\ ad_op'.key \in ad_gone)
          => /\ ad_op'.res = Err("KeyNotFound")
             /\ ad'.layers = ad.layers]_vars

\* a removed layer was removed again, in vain, while another layer remains
C9_Witness ==
    /\ ad_op.op = "remove_array" /\ ad_op.coll = "layers"
    /\ ad_op.key \in ad_gone
    /\ ad_op.res = Err("KeyNotFound")
    /\ DOMAIN ad.layers.data # {}

\* the selection a whole-object subset refuses before it touches anything
Refused(selection) ==
    \/ Len(selection) # 2
    \/ ~IsOk(bound_check(selection[1], ad_dims[ad.n_obs]))
    \/ ~IsOk(bound_check(selection[2], ad_dims[ad.n_vars]))

\* C18: a whole-object subset, in place or out of place, called with a number
\* of selectors other than two, or with a row selector that fails the bound
\* check against n_obs, or a column selector that fails it against n_vars,
\* returns an error, and the matrix, both tables, the five collections with
\* their members, n_obs and n_vars are as before.
C18_RefusedSubsetChangesNothing ==
    [][AdCall({"subset", "subset_inplace"}) /\ Refused(ad_op'.sel)
       => /\ ad_op'.res.kind = "Err"
          /\ ad' = ad /\ ad_elems' = ad_elems /\ ad_dims' = ad_dims]_vars

\* an in-place subset of an aggregate with a layer was refused for its
\* column selector alone
C18_Witness ==
    /\ ad_op.op = "subset_inplace" /\ Len(ad_op.sel) = 2
    /\ IsOk(bound_check(ad_op.sel[1], ad_dims[ad.n_obs]))
    /\ ~IsOk(bound_check(ad_op.sel[2], ad_dims[ad.n_vars]))
    /\ ad_op.res.kind = "Err"
    /\ DOMAIN ad.layers.data # {}

\* C23: the in-place subset of the aggregate works through its parts in
\* the order x, obs, var, layers, obsm, obsp, varm, varp and undoes
\* nothing: when a step after the first returns an error the call returns
\* that error, the parts of the earlier steps stay subsetted and the parts
\* of the failed and the later steps are as before the call.  The step on
\* obs is the only one after the first that the call ever gets to fail in.
C23_FailedStepKeepsEarlierParts ==
    [][(/\ AdCall({"subset_inplace"})
        /\ ~Refused(ad_op'.sel)
        /\ ad_op'.res.kind = "Err")
          => /\ ad_op'.res = df_subset_inplace(ad.obs, ad_op'.sel[1]).res
             /\ ad_elems'[ad.x] = Some(ArraySelect(Unwrap(ad_elems[ad.x]), ad_op'.sel).val)
             /\ \A e \in (1..Len(ad_elems)) \ {ad.x} : ad_elems'[e] = ad_elems[e]
             /\ Len(ad_elems') = Len(ad_elems)
             /\ ad' = ad
             /\ ad_dims' = ad_dims
      ]_vars

\* the step on obs failed for an accepted selection: the matrix no longer
\* has n_obs rows, a layer of the aggregate still has
C23_Witness ==
    /\ ad_op.op = "subset_inplace" /\ ad_op.res.kind = "Err"
    /\ ~Refused(ad_op.sel)
    /\ Unwrap(ad_elems[ad.x]).shape[1] # ad_dims[ad.n_obs]
    /\ \E k \in DOMAIN ad.layers.data :
          Unwrap(ad_elems[ad.layers.data[k]]).shape[1] = ad_dims[ad.n_obs]

\* the shape of the array an element cell holds
ShapeOf(e) == Unwrap(ad_elems[e]).shape

\* the shape of the member is exactly the one its collection's axis kind asks for
ExactRule(c, shape) == shape = ExactShape(c)

\* the matrix, the two tables and every member agree with n_obs and n_vars,
\* the members by the given rule
Consistent(Rule(_, _)) ==
    /\ ShapeOf(ad.x) = <<ad_dims[ad.n_obs], ad_dims[ad.n_vars]>>
    /\ Height(Unwrap(ad.obs).df) = ad_dims[ad.n_obs]
    /\ Height(Unwrap(ad.var).df) = ad_dims[ad.n_vars]
    /\ \A coll \in CollNames : \A k \in DOMAIN ad[coll].data :
          Rule(ad[coll], ShapeOf(ad[coll].data[k]))

\* the call this step starts or ends did not fail and did not block
NoFailure == ad_op'.res.kind \in {"Ok", "Pending"}

EmptyHeap == [dims |-> <<>>, elems |-> <<>>]

\* the shapes of the matrices handed to the constructors
MatrixShapes == {<<r, c>> : r, c \in 0..MaxDim}

\* the label lists handed to the constructors
NameInputs(tag) == {ColData(tag, n) : n \in 0..MaxDim}

\* the tables handed to new_extended: no column at all, or one column "x"
NewFrames == {EmptyFrame} \cup {MkFrame({"x"}, n, 3) : n \in 1..MaxDim}

\* the table elements handed to IMAnnData::new: whatever
\* IMDataFrameElement::new builds from the tables and the label lists
NewTables(tag) ==
    {df_new(p[1], p[2]).val :
        p \in {q \in NewFrames \X NameInputs(tag) : IsOk(df_new(q[1], q[2]))}}

NewArgs(shape, obs_names, var_names, obs_df, var_df) ==
    [shape |-> shape, obs_names |-> obs_names, var_names |-> var_names,
     obs_df |-> obs_df, var_df |-> var_df]

\* the outcome of a constructor call r: the aggregate with its cells and an
\* empty uns, or nothing but the failure
Constructed(name, args, r) ==
    /\ ad_op = AdNoOp /\ ad = <<>>
    /\ ad_op' = AdNewOp(name, args, r.res)
    /\ IF IsOk(r.res)
       THEN /\ ad' = r.res.val
            /\ ad_dims' = r.heap.dims
            /\ ad_elems' = r.heap.elems
            /\ ad_uns' = <<<<>>>>
       ELSE UNCHANGED <<ad, ad_dims, ad_elems, ad_uns>>
    /\ UNCHANGED <<ad_gone, ad_held>>
    /\ FrameHd

\* IMAnnData::new(IMArrayElement::new(matrix), obs, var)
AdNew(shape, obs, var) ==
    \E H1 \in {ElemNew(EmptyHeap, MkArray(0, shape))} :
       \E r \in {ad_new(H1, Len(H1.elems), obs, var)} :
          Constructed("new", NewArgs(shape, obs.index, var.index, obs.df, var.df), r)

\* IMAnnData::new_basic(matrix, obs_names, var_names); the tables it builds
\* itself stand in args for the ones a caller would hand over
AdNewBasic(shape, obs_names, var_names) ==
    \E r \in {new_basic(EmptyHeap, MkArray(0, shape), obs_names, var_names)} :
       Constructed("new_basic",
                   NewArgs(shape, obs_names, var_names, IndexFrame(obs_names), IndexFrame(var_names)), r)

\* IMAnnData::new_extended(matrix, obs_names, var_names, obs_df, var_df)
AdNewExtended(shape, obs_names, var_names, obs_df, var_df) ==
    \E r \in {new_extended(EmptyHeap, MkArray(0, shape), obs_names, var_names, obs_df, var_df)} :
       Constructed("new_extended", NewArgs(shape, obs_names, var_names, obs_df, var_df), r)

\* the caller drops the outcome
AdNewDrop ==
    /\ ad_op # AdNoOp
    /\ ad_dims' = <<>> /\ ad_elems' = <<>> /\ ad' = <<>> /\ ad_op' = AdNoOp
    /\ ad_uns' = <<>>
    /\ UNCHANGED <<ad_gone, ad_held>>
    /\ FrameHd

InitNew ==
    /\ AdIdle
    /\ SelIdle
    /\ SlotIdle
    /\ TblIdle
    /\ ThrIdle

NextNew ==
    \/ \E shape \in MatrixShapes, obs \in NewTables(1), var \in NewTables(2) : AdNew(shape, obs, var)
    \/ \E shape \in MatrixShapes, o \in NameInputs(1), v \in NameInputs(2) : AdNewBasic(shape, o, v)
    \/ \E shape \in MatrixShapes, o \in NameInputs(1), v \in NameInputs(2), odf, vdf \in NewFrames :
          AdNewExtended(shape, o, v, odf, vdf)
    \/ AdNewDrop

SpecNew == InitNew /\ [][NextNew]_vars

\* some count handed to a constructor differs from the matrix's
Mismatch(a) ==
    \/ a.shape[1] # Len(a.obs_names) \/ a.shape[1] # Height(a.obs_df)
    \/ a.shape[2] # Len(a.var_names) \/ a.shape[2] # Height(a.var_df)

\* C12: each of the three constructors returns an error, not a panic and not
\* an aggregate, whenever the matrix's row count differs from the height of
\* the row table or the number of row labels, or its column count from the
\* height of the column table or the number of column labels; on success
\* n_obs = shape[0], n_vars = shape[1] and the five collections are empty.
C12_ConstructorsRejectMismatch ==
    [][AdCall({"new", "new_basic", "new_extended"})
       => /\ Mismatch(ad_op'.args) => ad_op'.res.kind = "Err"
          /\ IsOk(ad_op'.res)
                => /\ ad_dims'[ad'.n_obs] = ad_op'.args.shape[1]
                   /\ ad_dims'[ad'.n_vars] = ad_op'.args.shape[2]
                   /\ \A coll \in CollNames : DOMAIN ad'[coll].data = {}]_vars

(* Handle specification: the caller of one aggregate keeps the handles that *)
(* accessors, get_array, get_array_shallow and deep_clone return, and      *)
(* works through them and through the aggregate                            *)

\* most handles the caller keeps
MaxHeld == 2

\* most element cells of a run: the matrix, a member, and a copy per handle
MaxCells == 2 + MaxHeld

NoVal == <<>>

\* a handle: field names the aggregate's field whose cell it shares (or, for
\* an element, the collection it came from), cell the element or uns cell it
\* shares, val the content of the cell it owns alone, live whether the
\* member it came from is still the one stored under key
Handle(kind, how, field, key, cell, val) ==
    [kind |-> kind, how |-> how, field |-> field, key |-> key, cell |-> cell,
     val |-> val, live |-> TRUE]

\* accessors that copy the tables and the collections
accessor_DeepClone(a, f) ==
    IF f = "x" THEN Handle("elem", "accessor", f, "", a.x, NoVal)
    ELSE IF f = "uns" THEN Handle("uns", "accessor", f, "", a.uns, NoVal)
    ELSE IF f \in {"obs", "var"} THEN Handle("tbl", "accessor", f, "", 0, <<a[f]>>)
    ELSE Handle("coll", "accessor", f, "", 0, <<inner_clone(a[f])>>)

\* IMAnnData::x, obs, var, obsm, obsp, varm, varp, uns, layers: self.f.clone()
accessor(a, f) ==
    IF f = "x" THEN Handle("elem", "accessor", f, "", a.x, NoVal)
    ELSE IF f = "uns" THEN Handle("uns", "accessor", f, "", a.uns, NoVal)
    ELSE IF f \in {"obs", "var"} THEN Handle("tbl", "accessor", f, "", 0, NoVal)
    ELSE Handle("coll", "accessor", f, "", 0, NoVal)

Fields == {"x", "obs", "var", "uns"} \cup CollNames

\* the handle shares a cell of the aggregate
Shares(h) == h.val = NoVal

\* what the cell behind a table or collection handle holds
Behind(h) == IF Shares(h) THEN ad[h.field] ELSE h.val[1]

\* a run works on one field of the aggregate: the handles the caller keeps
\* are all on field f, and no other collection has members
Focus(f) ==
    /\ \A j \in 1..Len(ad_held) : ad_held[j].field = f
    /\ \A c \in CollNames \ {f} : DOMAIN ad[c].data = {}

\* a call on collection coll is made through kept handle i, or, for i = 0,
\* on the aggregate's own (add_layer, or obsm().add_array in one expression);
\* a deep clone is kept to be looked at
Receives(i, coll) ==
    /\ Focus(coll)
    /\ \/ i = 0
       \/ i \in 1..Len(ad_held) /\ ad_held[i].kind = "coll" /\ ad_held[i].how = "accessor"

Rcv(i, coll) == IF i = 0 THEN ad[coll] ELSE Behind(ad_held[i])

\* the aggregate and the kept handles once the cell behind receiver i holds c
PutAd(i, f, c) == IF i = 0 \/ Shares(ad_held[i]) THEN [ad EXCEPT ![f] = c] ELSE ad

PutHeld(i, c) == IF i = 0 \/ Shares(ad_held[i]) THEN ad_held ELSE [ad_held EXCEPT ![i].val = <<c>>]

\* the record of a call made through kept handle h (0: through the aggregate)
HdOp(name, h, coll, key, shape, sel, res) ==
    [AdOp(name, coll, key, shape, sel, res) EXCEPT !.args = [h |-> h]]

\* let h = ad.f()
HdAccessor(f) ==
    /\ ad_op = AdNoOp /\ Len(ad_held) < MaxHeld /\ Focus(f)
    /\ ad_held' = Append(ad_held, accessor(ad, f))
    /\ ad_op' = HdOp("accessor", 0, f, "", <<>>, <<>>, Ok(Len(ad_held) + 1))
    /\ UNCHANGED <<ad, ad_dims, ad_elems, ad_uns, ad_gone>>
    /\ FrameHd

\* let e = c.get_array(key)
HdGetArray(i, coll, key) ==
    /\ ad_op = AdNoOp /\ Len(ad_held) < MaxHeld /\ Receives(i, coll)
    /\ \E r \in {get_array(Heap, Rcv(i, coll), key)} :
          /\ ad_elems' = r.heap.elems
          /\ ad_held' = IF IsOk(r.res)
                        THEN Append(ad_held, Handle("elem", "get_array", coll, key, r.res.val, NoVal))
                        ELSE ad_held
          /\ ad_op' = HdOp("get_array", i, coll, key, <<>>, <<>>, r.res)
    /\ UNCHANGED <<ad, ad_dims, ad_uns, ad_gone>>
    /\ FrameHd

\* let e = c.get_array_shallow(key)
HdGetArrayShallow(i, coll, key) ==
    /\ ad_op = AdNoOp /\ Len(ad_held) < MaxHeld /\ Receives(i, coll)
    /\ \E r \in {get_array_shallow(Rcv(i, coll), key)} :
          /\ ad_held' = IF IsOk(r)
                        THEN Append(ad_held, Handle("elem", "get_array_shallow", coll, key, r.val, NoVal))
                        ELSE ad_held
          /\ ad_op' = HdOp("get_array_shallow", i, coll, key, <<>>, <<>>, r)
    /\ UNCHANGED <<ad, ad_dims, ad_elems, ad_uns, ad_gone>>
    /\ FrameHd

\* let d = c.deep_clone()
HdDeepClone(i, coll) ==
    /\ ad_op = AdNoOp /\ Len(ad_held) < MaxHeld /\ Receives(i, coll)
    /\ \E r \in {axis_deep_clone(Rcv(i, coll))} :
          /\ ad_held' = Append(ad_held, Handle("coll", "deep_clone", coll, "", 0, <<r.val>>))
          /\ ad_op' = HdOp("deep_clone", i, coll, "", <<>>, <<>>, Ok(Len(ad_held) + 1))
    /\ UNCHANGED <<ad, ad_dims, ad_elems, ad_uns, ad_gone>>
    /\ FrameHd

\* c.add_array(key, IMArrayElement::new(data)); add_layer(key, ..) for i = 0
HdAddArray(i, coll, key, shape) ==
    /\ ad_op = AdNoOp /\ Len(ad_elems) < MaxCells /\ Receives(i, coll)
    /\ \E H1 \in {ElemNew(Heap, MkArray(1, shape))} :
       \E r \in {add_array(H1, Rcv(i, coll), key, Len(H1.elems))} :
          /\ ad' = PutAd(i, coll, r.content)
          /\ ad_held' = PutHeld(i, r.content)
          /\ ad_elems' = IF IsOk(r.res) THEN H1.elems ELSE ad_elems
          /\ ad_op' = HdOp("add_array", i, coll, key, shape, <<>>, r.res)
    /\ UNCHANGED <<ad_dims, ad_uns, ad_gone>>
    /\ FrameHd

\* the handles of the member a remove takes away no longer name the member
\* stored under the key
Detached(held, coll, key) ==
    [j \in 1..Len(held) |->
        IF held[j].kind = "elem" /\ held[j].how # "accessor" /\ held[j].field = coll
           /\ held[j].key = key
        THEN [held[j] EXCEPT !.live = FALSE]
        ELSE held[j]]

\* c.remove_array(key); remove_layer(key) for i = 0
HdRemoveArray(i, coll, key) ==
    /\ ad_op = AdNoOp /\ Receives(i, coll)
    /\ \E r \in {remove_array(Rcv(i, coll), key)} :
          /\ ad' = PutAd(i, coll, r.content)
          /\ ad_held' = IF IsOk(r.res)
                        THEN Detached(PutHeld(i, r.content), coll, key)
                        ELSE ad_held
          /\ ad_op' = HdOp("remove_array", i, coll, key, <<>>, <<>>, r.res)
    /\ UNCHANGED <<ad_dims, ad_elems, ad_uns, ad_gone>>
    /\ FrameHd

\* kept handle i is of the given kind
Keeps(i, kind) == i \in 1..Len(ad_held) /\ ad_held[i].kind = kind

\* the array a caller replaces a value by
Replacement == MkArray(2, <<1, 1>>)

\* e.set_data(data)
HdSetData(i) ==
    /\ ad_op = AdNoOp /\ Keeps(i, "elem")
    /\ \E r \in {elem_set_data(Heap, ad_held[i].cell, Replacement)} :
          /\ ad_elems' = r.heap.elems
          /\ ad_op' = HdOp("set_data", i, "", "", Replacement.shape, <<>>, r.res)
    /\ UNCHANGED <<ad, ad_dims, ad_uns, ad_gone, ad_held>>
    /\ FrameHd

\* the selections handed to an element's subset_inplace
HdSelLists == {<<SelectIndex(<<0>>), SelectFull>>}

\* e.subset_inplace(s)
HdElemSubsetInplace(i, s) ==
    /\ ad_op = AdNoOp /\ Keeps(i, "elem")
    /\ \E r \in {elem_subset_inplace(Heap, ad_held[i].cell, s)} :
          /\ ad_elems' = r.heap.elems
          /\ ad_op' = HdOp("elem_subset_inplace", i, "", "", <<>>, s, r.res)
    /\ UNCHANGED <<ad, ad_dims, ad_uns, ad_gone, ad_held>>
    /\ FrameHd

\* t.attach_column_to_df("x", column of the table's height)
HdAttachColumn(i) ==
    /\ ad_op = AdNoOp /\ Keeps(i, "tbl")
    /\ \E o \in {Behind(ad_held[i])} :
       \E r \in {attach_column_to_df(o, "x", ColData(3, Len(Unwrap(o).index)))} :
          /\ ad' = PutAd(i, ad_held[i].field, r.content)
          /\ ad_held' = PutHeld(i, r.content)
          /\ ad_op' = HdOp("attach_column_to_df", i, ad_held[i].field, "x", <<>>, <<>>, r.res)
    /\ UNCHANGED <<ad_dims, ad_elems, ad_uns, ad_gone>>
    /\ FrameHd

\* u.add_data(key, Element::new(v))
HdAddData(i, key, v) ==
    /\ ad_op = AdNoOp /\ Keeps(i, "uns")
    /\ \E r \in {add_data(ad_uns[ad_held[i].cell], key, v)} :
          /\ ad_uns' = [ad_uns EXCEPT ![ad_held[i].cell] = r.content]
          /\ ad_op' = HdOp("add_data", i, "uns", key, <<>>, <<>>, r.res)
    /\ UNCHANGED <<ad, ad_dims, ad_elems, ad_gone, ad_held>>
    /\ FrameHd

\* the call is over; the caller keeps its handles
HdReturn ==
    /\ ad_op # AdNoOp
    /\ ad_op' = AdNoOp
    /\ UNCHANGED <<ad, ad_dims, ad_elems, ad_uns, ad_gone, ad_held>>
    /\ FrameHd

\* the shapes of the arrays offered to the collections
HdShapes == {<<a, MaxDim>> : a \in 1..MaxDim}

HdRcv == 0..MaxHeld

NextHd ==
    \/ \E f \in Fields : HdAccessor(f)
    \/ \E i \in HdRcv, coll \in CollNames : HdGetArray(i, coll, "k1")
    \/ \E i \in HdRcv, coll \in CollNames : HdGetArrayShallow(i, coll, "k1")
    \/ \E i \in HdRcv, coll \in CollNames : HdDeepClone(i, coll)
    \/ \E i \in HdRcv, coll \in CollNames, shape \in HdShapes : HdAddArray(i, coll, "k1", shape)
    \/ \E i \in HdRcv, coll \in CollNames : HdRemoveArray(i, coll, "k1")
    \/ \E i \in HdRcv : HdSetData(i)
    \/ \E i \in HdRcv, s \in HdSelLists : HdElemSubsetInplace(i, s)
    \/ \E i \in HdRcv : HdAttachColumn(i)
    \/ \E i \in HdRcv : HdAddData(i, "k1", 7)
    \/ HdReturn

\* the aggregate of a run has all its rows and columns, or a single row
InitHd ==
    /\ InitAd
    /\ ad_dims[ad.n_vars] = MaxDim
    /\ ad_dims[ad.n_obs] \in {1, MaxDim}

SpecHd == InitHd /\ [][NextHd]_vars

\* what a reader of the collection content c gets: the axis kind, the two
\* extents, the keys and the value of every member
CollView(c) ==
    [axis |-> c.axis,
     dim1 |-> ad_dims[c.dim1],
     dim2 |-> IF c.dim2 # NoDim THEN ad_dims[c.dim2] ELSE 0,
     members |-> [k \in DOMAIN c.data |-> ad_elems[c.data[k]]]]

\* what a reader gets through a kept handle
HandleView(h) ==
    CASE h.kind = "elem" -> ad_elems[h.cell]
      [] h.kind = "uns"  -> ad_uns[h.cell]
      [] h.kind = "tbl"  -> Behind(h)
      [] h.kind = "coll" -> CollView(Behind(h))

\* what the aggregate itself holds in field f
FieldView(f) ==
    CASE f = "x"   -> ad_elems[ad.x]
      [] f = "uns" -> ad_uns[ad.uns]
      [] f \in {"obs", "var"} -> ad[f]
      [] OTHER -> CollView(ad[f])

\* a call made through kept handle i starts in this step
Via(names, i) == AdCall(names) /\ ad_op'.args = [h |-> i]

\* kept handle i came from the given operation
From(i, how) == i \in 1..Len(ad_held) /\ ad_held[i].how = how

\* a successful change made through an accessor handle is in the aggregate
ChangeInAggregate(i) ==
    LET h == ad_held[i]
        f == h.field
    IN  IsOk(ad_op'.res) =>
          /\ Via({"add_array"}, i)
                => /\ ad_op'.key \in DOMAIN ad'[f].data
                   /\ ad_elems'[ad'[f].data[ad_op'.key]] = Some(MkArray(1, ad_op'.shape))
          /\ Via({"remove_array"}, i) => ad_op'.key \notin DOMAIN ad'[f].data
          /\ Via({"set_data"}, i) => ad_elems'[ad'.x] = Some(Replacement)
          /\ Via({"attach_column_to_df"}, i) => "x" \in DOMAIN Unwrap(ad'[f]).df
          /\ Via({"add_data"}, i) => ad_op'.key \in DOMAIN ad_uns'[ad'.uns]

\* C13: the handle an accessor (x, obs, var, obsm, obsp, varm, varp, layers,
\* uns) returns shares the aggregate's storage: at every moment a reader gets
\* through it what the aggregate holds in that field, whether the handle was
\* obtained before or after a change and whether the change was made through
\* a handle or by the aggregate; and a successful add_array, remove_array,
\* set_data, attach_column_to_df or add_data through it is in the aggregate.
C13_AccessorsShareStorage ==
    /\ [](\A i \in 1..Len(ad_held) :
            From(i, "accessor") => HandleView(ad_held[i]) = FieldView(ad_held[i].field))
    /\ [][\A i \in 1..Len(ad_held) : From(i, "accessor") => ChangeInAggregate(i)]_vars

\* an array was added through the first of two handles an accessor returned
\* for the same collection
C13_Witness ==
    /\ ad_op.op = "add_array" /\ ad_op.args = [h |-> 1] /\ IsOk(ad_op.res)
    /\ Len(ad_held) = 2
    /\ From(1, "accessor") /\ From(2, "accessor")

\* the member stored under the key handle i came from
MemberOf(i) == ad[ad_held[i].field].data[ad_held[i].key]

ElemChanges == {"set_data", "elem_subset_inplace"}

\* C14: the element get_array(k) returns starts with the member's value and
\* is independent: set_data and subset_inplace through it leave the member
\* stored under k as it is, and no call made otherwise changes what it
\* holds; the element get_array_shallow(k) returns is the member: at every
\* moment it holds what the member stored under k holds, and a set_data
\* through it is what the member holds afterwards.
C14_GetIsIndependentShallowIsAliased ==
    /\ [](\A j \in 1..Len(ad_held) :
            (From(j, "get_array_shallow") /\ ad_held[j].live)
               => ad_elems[ad_held[j].cell] = ad_elems[MemberOf(j)])
    /\ [][/\ (AdCall({"get_array"}) /\ IsOk(ad_op'.res))
               => ad_elems'[ad_op'.res.val] = ad_elems[ad[ad_op'.coll].data[ad_op'.key]]
          /\ \A i \in 1..Len(ad_held) :
               /\ (From(i, "get_array") /\ ad_held[i].live /\ Via(ElemChanges, i))
                     => ad_elems'[MemberOf(i)] = ad_elems[MemberOf(i)]
               /\ (From(i, "get_array") /\ ad_op'.args # [h |-> i])
                     => ad_elems'[ad_held[i].cell] = ad_elems[ad_held[i].cell]
               /\ (From(i, "get_array_shallow") /\ ad_held[i].live /\ Via({"set_data"}, i))
                     => ad_elems'[MemberOf(i)] = Some(Replacement)
         ]_vars

\* the value of the element get_array returned was replaced while a handle
\* from get_array_shallow is kept on the same member, which holds another value
C14_Witness ==
    /\ ad_op.op = "set_data" /\ Len(ad_held) = 2
    /\ \E i, j \in 1..2 :
          /\ ad_op.args = [h |-> i]
          /\ From(i, "get_array") /\ ad_held[i].live
          /\ From(j, "get_array_shallow") /\ ad_held[j].live
          /\ ad_elems[ad_held[i].cell] # ad_elems[ad_held[j].cell]

\* C19: a deep clone of a collection is a snapshot: whatever is done to the
\* original afterwards (a member's value replaced or subsetted through a
\* shallow handle, keys added or removed), a reader of the clone gets the
\* members, the keys and the extents of the moment of the clone.
C19_DeepCloneIsSnapshot ==
    [][\A i \in 1..Len(ad_held) :
         From(i, "deep_clone") => CollView(Behind(ad_held[i]))' = CollView(Behind(ad_held[i]))]_vars

----------------------------------------------------------------------------
(* The unstructured collection across the two subset variants: the caller  *)
(* keeps the aggregate that subset returned and adds and removes keys       *)
(* through uns() of either aggregate                                        *)

\* the uns cell of the aggregate built first (w = 0) or of the kept result w
UnsOf(w) == IF w = 0 THEN ad.uns ELSE ad_held[w].val.uns

FrameUns == UNCHANGED <<varsSel, varsSlot, varsTbl, varsThr>>

\* b = a.subset(selection); the caller keeps b
UnsSubset(selection) ==
    /\ ad_op = AdNoOp /\ ad_held = <<>>
    /\ \E r \in {ad_subset(Heap, ad, selection)} :
          /\ ad_dims' = r.heap.dims
          /\ ad_elems' = r.heap.elems
          /\ ad_op' = AdOp("subset", "", "", <<>>, selection, r.res)
          /\ ad_held' = IF IsOk(r.res)
                        THEN <<Handle("aggregate", "subset", "", "", 0, r.res.val)>>
                        ELSE ad_held
    /\ UNCHANGED <<ad, ad_uns, ad_gone>>
    /\ FrameUns

\* a.subset_inplace(selection)
UnsSubsetInplace(selection) ==
    /\ ad_op = AdNoOp
    /\ \E r \in {ad_subset_inplace(Heap, ad, selection)} :
          /\ ad_dims' = r.heap.dims
          /\ ad_elems' = r.heap.elems
          /\ ad_op' = AdOp("subset_inplace", "", "", <<>>, selection, r.res)
    /\ UNCHANGED <<ad, ad_uns, ad_gone, ad_held>>
    /\ FrameUns

\* w.uns().add_data(key, v)
UnsAddData(w, key, v) ==
    /\ ad_op = AdNoOp /\ w <= Len(ad_held)
    /\ \E r \in {add_data(ad_uns[UnsOf(w)], key, v)} :
          /\ ad_uns' = [ad_uns EXCEPT ![UnsOf(w)] = r.content]
          /\ ad_op' = HdOp("add_data", w, "uns", key, <<>>, <<>>, r.res)
    /\ UNCHANGED <<ad, ad_dims, ad_elems, ad_gone, ad_held>>
    /\ FrameUns

\* w.uns().remove_data(key)
UnsRemoveData(w, key) ==
    /\ ad_op = AdNoOp /\ w <= Len(ad_held)
    /\ \E r \in {remove_data(ad_uns[UnsOf(w)], key)} :
          /\ ad_uns' = [ad_uns EXCEPT ![UnsOf(w)] = r.content]
          /\ ad_op' = HdOp("remove_data", w, "uns", key, <<>>, <<>>, r.res)
    /\ UNCHANGED <<ad, ad_dims, ad_elems, ad_gone, ad_held>>
    /\ FrameUns

\* the call is over; a call that blocks never returns
UnsReturn ==
    /\ ad_op # AdNoOp
    /\ ad_op.res # Blocked
    /\ ad_op' = AdNoOp
    /\ UNCHANGED <<ad, ad_dims, ad_elems, ad_uns, ad_gone, ad_held>>
    /\ FrameUns

NextUns ==
    \/ \E selection \in AdSelLists : UnsSubset(selection)
    \/ \E selection \in AdSelLists : UnsSubsetInplace(selection)
    \/ \E w \in 0..1, key \in Keys, v \in Values : UnsAddData(w, key, v)
    \/ \E w \in 0..1, key \in Keys : UnsRemoveData(w, key)
    \/ UnsReturn

SpecUns == InitAd /\ [][NextUns]_vars

\* C28: neither subset nor subset_inplace of the aggregate changes the
\* unstructured collection, keys and values alike; the aggregate that
\* subset returns holds the same collection cell, so a key added or
\* removed through uns() of either aggregate is found, respectively
\* missing, through uns() of the other.
C28_UnsUnchangedAndShared ==
    /\ [](\A w \in 1..Len(ad_held) : ad_held[w].val.uns = ad.uns)
    /\ [][AdCall({"subset", "subset_inplace"}) => ad_uns' = ad_uns]_vars
    /\ [][(AdCall({"add_data", "remove_data"}) /\ IsOk(ad_op'.res))
            => \A w \in 0..Len(ad_held) :
                  LET seen == ad_uns'[UnsOf(w)]
                  IN  IF ad_op'.op = "add_data"
                      THEN /\ ad_op'.key \in DOMAIN seen
                           /\ \A k \in DOMAIN ad_uns[UnsOf(w)] : seen[k] = ad_uns[UnsOf(w)][k]
                      ELSE ad_op'.key \notin DOMAIN seen
      ]_vars

\* a key was removed through uns() of the kept result of subset while the
\* collection, read through the first aggregate, still holds another key
C28_Witness ==
    /\ Len(ad_held) = 1 /\ ad_held[1].kind = "aggregate"
    /\ ad_op.op = "remove_data" /\ ad_op.args.h = 1 /\ IsOk(ad_op.res)
    /\ ad_uns[ad.uns] # <<>>
\* C22: an in-place subset of the aggregate whose selection passed the
\* bound checks is not rejected by a later step, and after the call n_obs
\* is the number of rows the row selector picks from the former n_obs and
\* n_vars the number of columns the column selector picks from the former
\* n_vars: each shared dim is reduced once.
C22_SharedDimReducedOnce ==
    [][(/\ AdCall({"subset_inplace"})
        /\ ~Refused(ad_op'.sel)
        /\ IsOk(Picks(ad_op'.sel[1], ad_dims[ad.n_obs]))
        /\ IsOk(Picks(ad_op'.sel[2], ad_dims[ad.n_vars])))
          => /\ IsOk(ad_op'.res)
             /\ ad_dims'[ad.n_obs] = Len(Picks(ad_op'.sel[1], ad_dims[ad.n_obs]).val)
             /\ ad_dims'[ad.n_vars] = Len(Picks(ad_op'.sel[2], ad_dims[ad.n_vars]).val)
      ]_vars

\* the collections of aggregate a hold a's own n_obs and n_vars cells
SharesDims(a) ==
    /\ a.layers.dim1 = a.n_obs /\ a.obsm.dim1 = a.n_obs /\ a.obsp.dim1 = a.n_obs
    /\ a.layers.dim2 = a.n_vars /\ a.varm.dim1 = a.n_vars /\ a.varp.dim1 = a.n_vars

\* C27: in every aggregate, built by a constructor or returned by subset,
\* n_obs is the very Dim that layers, obsm and obsp hold as dim1, and n_vars
\* the very Dim that layers holds as dim2 and varm and varp hold as dim1.
C27_AggregatesShareDims ==
    /\ SharesDims(ad)
    /\ \A w \in 1..Len(ad_held) : SharesDims(ad_held[w].val)
----------------------------------------------------------------------------
(* subset_inplace of the collections of one aggregate, called through     *)
(* layers(), obsm(), obsp(), varm() and varp()                             *)

\* the orders in which a HashMap with these keys may be visited
Orders(data) ==
    {o \in {<<>>} \cup {<<k>> : k \in Keys} \cup {<<k, l>> : k, l \in Keys} :
        /\ Len(o) = Cardinality(DOMAIN data)
        /\ {o[n] : n \in 1..Len(o)} = DOMAIN data}

\* the selections handed to subset_inplace of a collection:
\* SelectIndex(<<1, 0>>) keeps the size of an axis of two
AxInplaceSelLists ==
    AxisSelLists \cup {<<SelectIndex(<<1, 0>>)>>, <<SelectIndex(<<1, 0>>), SelectFull>>}

\* coll().subset_inplace(s)
AxSubsetInplace(coll, s) ==
    /\ ad_op = AdNoOp
    /\ \E order \in Orders(ad[coll].data), change \in BOOLEAN :
          \E r \in {axis_subset_inplace(Heap, ad[coll], s, order, change)} :
             AdCalled("axis_subset_inplace", coll, "", s, r)

NextAx ==
    \/ \E coll \in CollNames, shape \in ShapeInputs : \E key \in AddKeys(coll) : AdAddArray(coll, key, shape)
    \/ \E coll \in CollNames, s \in AxInplaceSelLists : AxSubsetInplace(coll, s)
    \/ AdReturn

SpecAx == InitAd /\ [][NextAx]_vars

\* the dims and the members of collection c, as heap H holds them
CollState(H, c) ==
    [dim1 |-> H.dims[c.dim1],
     dim2 |-> IF c.dim2 # NoDim THEN H.dims[c.dim2] ELSE NoDim,
     data |-> [k \in DOMAIN c.data |-> H.elems[c.data[k]]]]

\* C26: a subset_inplace of a collection that fails after its first
\* selector was accepted - fewer than two selectors for a collection with
\* two dims, a second selector that does not fit dim2, or a member whose
\* subsetting fails - leaves dim1, dim2 and every member of the collection
\* exactly as they were before the call.
C26_FailedInplaceChangesNothing ==
    [][(/\ AdCall({"axis_subset_inplace"})
        /\ ~IsOk(ad_op'.res)
        /\ Len(ad_op'.sel) > 0
        /\ IsOk(select_info_elem_to_indices(ad_op'.sel[1], ad_dims[ad[ad_op'.coll].dim1])))
          => CollState(Heap', ad[ad_op'.coll]) = CollState(Heap, ad[ad_op'.coll])
      ]_vars
----------------------------------------------------------------------------
(* A writer thread inside subset_inplace of the aggregate or of layers(),  *)
(* one statement at a time, and a reader thread that reads sizes through   *)
(* the handles it obtained before: x(), get_array_shallow on layers(), and *)
(* n_obs()                                                                 *)

\* what the reader reads
CcParts == {"x", "n_obs", "k1"}

\* the locks of the parts; only the guards of obs and of the layers
\* collection are ever held from one statement to the next
CcLocks == CcParts \cup {"obs", "layers"}

\* the writer between two calls
CcIdle ==
    [op |-> "none", pc |-> "idle", sel |-> <<>>, todo |-> <<>>, change |-> FALSE,
     res |-> Pending, before |-> <<>>]

\* the reader has read nothing since the writer's call began
CcUnread == [seen |-> [p \in CcParts |-> None]]

\* the writer inside a call
CcAt(w, pc, res) == [w EXCEPT !.pc = pc, !.res = res]

\* the rows of the array behind element e
RowsOf(H, e) == Unwrap(H.elems[e]).shape[1]

\* the size the reader finds behind its handle of part p
CcSize(p) ==
    IF p = "x" THEN RowsOf(Heap, ad.x)
    ELSE IF p = "n_obs" THEN ad_dims[ad.n_obs]
    ELSE RowsOf(Heap, ad.layers.data[p])

\* a reader that has to wait while any call of the writer is in progress
CanRead_AggregateLock(p) == locks[p] = 0 /\ thr[1].pc = "idle"

\* read_inner / Dim::get on part p returns once no write guard is held on p
CanRead(p) == locks[p] = 0

FrameCc == UNCHANGED <<varsSel, varsSlot, varsTbl, ad, ad_op, ad_gone, ad_uns, ad_held>>

\* a.subset_inplace(selection) up to the bound checks
CcCall(selection) ==
    /\ thr[1].pc = "idle" /\ ad_op = AdNoOp
    /\ thr' = <<[CcIdle EXCEPT !.op = "subset_inplace", !.sel = selection,
                               !.pc = IF Refused(selection) THEN "done" ELSE "x",
                               !.res = IF Refused(selection)
                                       THEN ad_subset_inplace(Heap, ad, selection).res
                                       ELSE Pending,
                               !.before = [p \in {"x", "n_obs"} |-> CcSize(p)]],
                CcUnread>>
    /\ UNCHANGED <<locks, ad_dims, ad_elems>>
    /\ FrameCc

\* self.x.subset_inplace(selection)?
CcStepX ==
    /\ thr[1].pc = "x" /\ locks["x"] = 0
    /\ \E r \in {elem_subset_inplace(Heap, ad.x, thr[1].sel)} :
          /\ ad_elems' = r.heap.elems
          /\ thr' = [thr EXCEPT ![1] = IF IsOk(r.res) THEN CcAt(@, "obs", Pending)
                                                      ELSE CcAt(@, "done", r.res)]
    /\ UNCHANGED <<locks, ad_dims>>
    /\ FrameCc

\* self.obs.subset_inplace(obs_sel)?: it fails, or it waits for its own
\* guard with the guard held
CcStepObs ==
    /\ thr[1].pc = "obs" /\ locks["obs"] = 0
    /\ \E r \in {df_subset_inplace(ad.obs, thr[1].sel[1]).res} :
          IF r = Blocked
          THEN /\ locks' = [locks EXCEPT !["obs"] = 1]
               /\ thr' = [thr EXCEPT ![1] = CcAt(@, "blocked", r)]
          ELSE /\ locks' = locks
               /\ thr' = [thr EXCEPT ![1] = CcAt(@, "done", r)]
    /\ UNCHANGED <<ad_dims, ad_elems>>
    /\ FrameCc

\* a.layers().subset_inplace(s): write_inner on the collection
CcAxCall(s) ==
    /\ thr[1].pc = "idle" /\ ad_op = AdNoOp /\ locks["layers"] = 0
    /\ \E order \in Orders(ad.layers.data), change \in BOOLEAN :
          thr' = <<[CcIdle EXCEPT !.op = "axis_subset_inplace", !.sel = s, !.pc = "dim1",
                                  !.todo = order, !.change = change,
                                  !.before = [p \in {"x", "n_obs"} |-> CcSize(p)]],
                   CcUnread>>
    /\ locks' = [locks EXCEPT !["layers"] = 1]
    /\ UNCHANGED <<ad_dims, ad_elems>>
    /\ FrameCc

\* the heap and the outcome of a statement of the call on layers() that
\* went well lead to the next statement, a failure ends the call and drops
\* the guard
CcAxAfter(r, next) ==
    /\ ad_dims' = r.heap.dims
    /\ ad_elems' = r.heap.elems
    /\ IF IsOk(r.res)
       THEN /\ thr' = [thr EXCEPT ![1] = CcAt(@, next, Pending)]
            /\ locks' = locks
       ELSE /\ thr' = [thr EXCEPT ![1] = CcAt(@, "done", r.res)]
            /\ locks' = [locks EXCEPT !["layers"] = 0]
    /\ FrameCc

\* the statements on s[0] and dim1: those of the whole call on a collection
\* that has no dim2 and no members
CcAxDim1 ==
    /\ thr[1].pc = "dim1"
    /\ \E r \in {axis_subset_inplace(Heap, [ad.layers EXCEPT !.dim2 = NoDim, !.data = <<>>],
                                     thr[1].sel, <<>>, thr[1].change)} :
          CcAxAfter(r, "dim2")

\* the block on dim2: the rest of the call on a collection without members
CcAxDim2 ==
    /\ thr[1].pc = "dim2"
    /\ \E r \in {InplaceFromDim2(Heap, [ad.layers EXCEPT !.data = <<>>],
                                 thr[1].sel, <<>>, thr[1].change)} :
          CcAxAfter(r, "members")

\* element.subset_inplace(s)? on the next member
CcAxMember ==
    /\ thr[1].pc = "members" /\ thr[1].todo # <<>>
    /\ \E r \in {elem_subset_inplace(Heap, ad.layers.data[Head(thr[1].todo)], thr[1].sel)} :
          /\ ad_elems' = r.heap.elems
          /\ IF IsOk(r.res)
             THEN /\ thr' = [thr EXCEPT ![1].todo = Tail(@)]
                  /\ locks' = locks
             ELSE /\ thr' = [thr EXCEPT ![1] = CcAt(@, "done", r.res)]
                  /\ locks' = [locks EXCEPT !["layers"] = 0]
    /\ UNCHANGED ad_dims
    /\ FrameCc

\* Ok(()) after the last member: the guard of the collection is dropped
CcAxEnd ==
    /\ thr[1].pc = "members" /\ thr[1].todo = <<>>
    /\ thr' = [thr EXCEPT ![1] = CcAt(@, "done", Ok(0))]
    /\ locks' = [locks EXCEPT !["layers"] = 0]
    /\ UNCHANGED <<ad_dims, ad_elems>>
    /\ FrameCc

\* the writer is back from its call
CcReturn ==
    /\ thr[1].pc = "done"
    /\ thr' = [thr EXCEPT ![1] = CcIdle]
    /\ UNCHANGED <<locks, ad_dims, ad_elems>>
    /\ FrameCc

\* the reader reads the size of part p through its handle
CcRead(p) ==
    /\ p = "k1" => p \in DOMAIN ad.layers.data
    /\ CanRead(p)
    /\ thr' = [thr EXCEPT ![2].seen[p] = Some(CcSize(p))]
    /\ UNCHANGED <<locks, ad_dims, ad_elems>>
    /\ FrameCc

\* the selections of the writer: one that takes the first row, one that
\* obs cannot translate, one with too few selectors, with and without a
\* smaller first axis, and one out of bounds
CcSelLists ==
    {<<SelectIndex(<<0>>), SelectFull>>, <<SelectSlice(1, None, 1), SelectFull>>,
     <<SelectIndex(<<0>>)>>, <<SelectFull>>, <<SelectIndex(<<MaxDim>>), SelectFull>>}

InitCc ==
    /\ InitAggregate
    /\ ad_dims[ad.n_vars] = MaxDim
    /\ ad_dims[ad.n_obs] \in {1, MaxDim}
    /\ thr = <<CcIdle, CcUnread>>
    /\ locks = [l \in CcLocks |-> 0]

NextCc ==
    \/ \E shape \in HdShapes : thr[1].pc = "idle" /\ AdAddArray("layers", "k1", shape)
    \/ thr[1].pc = "idle" /\ AdReturn
    \/ \E selection \in CcSelLists : CcCall(selection)
    \/ CcStepX
    \/ CcStepObs
    \/ \E s \in CcSelLists : CcAxCall(s)
    \/ CcAxDim1
    \/ CcAxDim2
    \/ CcAxMember
    \/ CcAxEnd
    \/ CcReturn
    \/ \E p \in CcParts : CcRead(p)

SpecCc == InitCc /\ [][NextCc]_vars

\* the writer is inside a call, between two of its statements
CcInside == thr[1].pc \notin {"idle", "done"}

\* C24: while the writer is inside subset_inplace of the aggregate or of a
\* collection, no lock keeps the reader from the matrix, from a member it
\* has a shallow handle of, or from n_obs(): each read returns at once with
\* the size of that moment, so the reader can find parts of the new size
\* next to parts and dims of the old one.
C24_ReaderSeesIntermediateState ==
    /\ [](CcInside => /\ CanRead("x") /\ CanRead("n_obs")
                      /\ "k1" \in DOMAIN ad.layers.data => CanRead("k1"))
    /\ [][\A p \in CcParts : thr'[2].seen[p] # thr[2].seen[p] /\ thr'[1] = thr[1]
                                => thr'[2].seen[p] = Some(CcSize(p))]_vars

\* inside the in-place subset of the aggregate the reader has read the
\* matrix with fewer rows than before the call and n_obs() as before
C24_Witness ==
    /\ thr[1].op = "subset_inplace" /\ CcInside
    /\ IsSome(thr[2].seen["x"]) /\ Unwrap(thr[2].seen["x"]) < thr[1].before["x"]
    /\ thr[2].seen["n_obs"] = Some(thr[1].before["n_obs"])
    /\ thr[1].before["x"] = thr[1].before["n_obs"]

----------------------------------------------------------------------------
(* convert_to_in_memory, converter.rs: one call, statement by statement.   *)
(* The AnnData<B> is moved into the call: it lives in the call's frame,    *)
(* thr[1], with the statement the call has reached.                        *)

\* what a slot of the backend holds: nothing (is_none), or members under
\* these keys
StoreSlots == {None, Some({"k1"}), Some(Keys)}

StoreSlotNames == {"obsm", "obsp", "varm", "varp", "layers", "uns"}

\* the stores handed to the call: with or without X, n_obs rows and n_vars
\* columns, every member of a slot of the shape the backend requires of it
Stores ==
    {[x |-> x, n_obs |-> r, n_vars |-> c, slots |-> s, closed |-> 0] :
        x \in BOOLEAN, r \in 0..MaxDim, c \in 0..MaxDim, s \in [StoreSlotNames -> StoreSlots]}

\* the shape of the members of a slot of the store b
StoreShape(b, name) ==
    CASE name = "obsm" -> <<b.n_obs, 1>>
      [] name = "obsp" -> <<b.n_obs, b.n_obs>>
      [] name = "varm" -> <<b.n_vars, 1>>
      [] name = "varp" -> <<b.n_vars, b.n_vars>>
      [] OTHER         -> <<b.n_obs, b.n_vars>>

\* read_obs / read_var of a store with n rows
StoreFrame(n) == IF n = 0 THEN EmptyFrame ELSE MkFrame({"x"}, n, 3)

\* the keys of a present slot in the order the loop visits them
StoreKeys(slot) == SelectSeq(KeyOrder, LAMBDA k : k \in Unwrap(slot))

\* the frame of the call: its argument, the statement reached, its result
ConvFrame(pc, anndata, res) ==
    [call |-> "convert_to_in_memory", anndata |-> anndata, pc |-> pc, res |-> res]

ConvOut(res, H, c) == [res |-> res, heap |-> H, content |-> c]

RECURSIVE ConvMembers(_, _, _, _)

\* the loop of convert_axis_arrays_to_mem over the members still to copy
ConvMembers(H, c, todo, shape) ==
    IF todo = <<>>
    THEN ConvOut(Ok(0), H, c)
    ELSE Only({IF ~IsOk(r.res)
               THEN ConvOut(r.res, H1, r.content)
               ELSE ConvMembers(H1, r.content, Tail(todo), shape) :
               <<H1, r>> \in {<<G, add_array(G, c, Head(todo), Len(G.elems))>> :
                                 G \in {ElemNew(H, MkArray(0, shape))}}})

\* convert_axis_arrays_to_mem(axis_arr, reference_element)
convert_axis_arrays_to_mem(H, axis_arr, shape, c) ==
    IF axis_arr = None
    THEN ConvOut(Ok(0), H, c)
    ELSE ConvMembers(H, c, StoreKeys(axis_arr), shape)

RECURSIVE ConvData(_, _)

\* the loop of convert_uns_to_mem over the entries still to copy
ConvData(m, todo) ==
    IF todo = <<>>
    THEN Out(Ok(0), m)
    ELSE Only({IF ~IsOk(r.res) THEN r ELSE ConvData(r.content, Tail(todo)) :
               r \in {add_data(m, Head(todo), 1)}})

\* convert_uns_to_mem(elem_col, reference_element)
convert_uns_to_mem(m, elem_col) ==
    IF elem_col = None THEN Out(Ok(0), m) ELSE ConvData(m, StoreKeys(elem_col))

FrameConv == UNCHANGED <<varsSel, varsSlot, varsTbl, locks, ad_op, ad_gone, ad_held>>

ConvAt(pc) == thr # <<>> /\ thr[1].pc = pc

\* the statement at pc has ended with res: go on at next, or leave the call
ConvAfter(res, next) ==
    thr' = IF IsOk(res)
           THEN <<ConvFrame(next, thr[1].anndata, Pending)>>
           ELSE <<ConvFrame("done", thr[1].anndata, res)>>

\* read_obs, obs_names, read_var, var_names, x().get().unwrap(), new_extended
ConvNewExtended ==
    /\ ConvAt("start")
    /\ LET b == thr[1].anndata
       IN  IF ~b.x
           THEN /\ thr' = <<ConvFrame("done", b, Panic("unwrap on None"))>>
                /\ UNCHANGED <<ad, ad_dims, ad_elems, ad_uns>>
           ELSE \E r \in {new_extended(EmptyHeap, MkArray(0, <<b.n_obs, b.n_vars>>),
                                       ColData(1, b.n_obs), ColData(2, b.n_vars),
                                       StoreFrame(b.n_obs), StoreFrame(b.n_vars))} :
                   /\ ConvAfter(r.res, "obsm")
                   /\ IF IsOk(r.res)
                      THEN /\ ad' = r.res.val
                           /\ ad_dims' = r.heap.dims
                           /\ ad_elems' = r.heap.elems
                           /\ ad_uns' = <<<<>>>>
                      ELSE UNCHANGED <<ad, ad_dims, ad_elems, ad_uns>>
    /\ FrameConv

\* convert_axis_arrays_to_mem(anndata.<name>(), imad.<name>())?
ConvAxisArrays(name, next) ==
    /\ ConvAt(name)
    /\ \E r \in {convert_axis_arrays_to_mem(Heap, thr[1].anndata.slots[name],
                                            StoreShape(thr[1].anndata, name), ad[name])} :
          /\ ConvAfter(r.res, next)
          /\ ad' = [ad EXCEPT ![name] = r.content]
          /\ ad_dims' = r.heap.dims
          /\ ad_elems' = r.heap.elems
    /\ UNCHANGED ad_uns
    /\ FrameConv

\* convert_uns_to_mem(anndata.uns(), imad.uns())?
ConvUns ==
    /\ ConvAt("uns")
    /\ \E r \in {convert_uns_to_mem(ad_uns[ad.uns], thr[1].anndata.slots["uns"])} :
          /\ ConvAfter(r.res, "close")
          /\ ad_uns' = [ad_uns EXCEPT ![ad.uns] = r.content]
    /\ UNCHANGED <<ad, ad_dims, ad_elems>>
    /\ FrameConv

\* anndata.close()?; Ok(imad): the backend may fail to close
ConvClose ==
    /\ ConvAt("close")
    /\ \E res \in {Ok(0), Err("close")} :
          thr' = <<ConvFrame("done", [thr[1].anndata EXCEPT !.closed = @ + 1], res)>>
    /\ UNCHANGED <<ad, ad_dims, ad_elems, ad_uns>>
    /\ FrameConv

InitConv ==
    /\ AdIdle
    /\ SelIdle
    /\ SlotIdle
    /\ TblIdle
    /\ \E b \in Stores : thr = <<ConvFrame("start", b, Pending)>>
    /\ locks = <<>>

NextConv ==
    \/ ConvNewExtended
    \/ ConvAxisArrays("obsm", "obsp")
    \/ ConvAxisArrays("obsp", "varm")
    \/ ConvAxisArrays("varm", "varp")
    \/ ConvAxisArrays("varp", "uns")
    \/ ConvUns
    \/ ConvClose

SpecConv == InitConv /\ [][NextConv]_vars

\* the keys a slot of the store holds
StoreKeySet(slot) == IF slot = None THEN {} ELSE Unwrap(slot)

\* C36: after a successful import every axis-collection slot of the backend
\* (obsm, obsp, varm, varp and layers) has exactly the backend's key set in
\* the in-memory collection (empty when the slot is absent), uns has exactly
\* the backend's keys, and close() was called once, after all the copying.
C36_ImportCopiesEverySlot ==
    thr # <<>> =>
        /\ thr[1].anndata.closed > 0 => thr[1].pc = "done"
        /\ (thr[1].pc = "done" /\ IsOk(thr[1].res)) =>
              /\ \A name \in CollNames :
                    DOMAIN ad[name].data = StoreKeySet(thr[1].anndata.slots[name])
              /\ DOMAIN ad_uns[ad.uns] = StoreKeySet(thr[1].anndata.slots["uns"])
              /\ thr[1].anndata.closed = 1

----------------------------------------------------------------------------
(* IMAxisArrays and its members under two threads, ad/helpers.rs.  Every   *)
(* call is run guard by guard: the collection's guard is taken first and   *)
(* kept to the end of the call, a member's guard lives for one statement.  *)
(* locks.coll is the RwLock of layers(), locks.elems[e] that of element e: *)
(* w is the thread holding the write guard (0: none), r the threads        *)
(* holding read guards.  Each of the two threads makes one call.           *)

LkFree == [w |-> 0, r |-> {}]

\* a write guard handed out whatever guards are alive
CanWrite_Shared(L) == TRUE

\* RwLock::write returns once no guard is alive
CanWrite(L) == L.w = 0 /\ L.r = {}

\* RwLock::read returns once no write guard is alive
CanReadLock(L) == L.w = 0

Acquire(L, t, mode) == IF mode = "w" THEN [L EXCEPT !.w = t] ELSE [L EXCEPT !.r = @ \cup {t}]

\* a guard that is never dropped
Release_Leaked(L, t) == L

\* drop of the guard thread t holds
Release(L, t) == [w |-> IF L.w = t THEN 0 ELSE L.w, r |-> L.r \ {t}]

CollOps == {"add_array", "get_array", "get_array_shallow", "remove_array", "update_array",
            "keys", "len", "subset", "subset_inplace"}

MemberOps == {"get_shape", "get_data", "set_data", "elem_subset_inplace"}

\* write_inner or read_inner on the collection
CollMode(op) ==
    IF op \in {"add_array", "remove_array", "update_array", "subset_inplace"} THEN "w" ELSE "r"

\* lock_write / write_inner or read_inner on a member
MemberMode(op) ==
    IF op \in {"subset_inplace", "set_data", "elem_subset_inplace"} THEN "w" ELSE "r"

\* a thread that has made no call
LkIdle ==
    [op |-> "none", key |-> "", elem |-> 0, sel |-> <<>>, pc |-> "idle", todo |-> <<>>,
     res |-> Pending]

\* the call stands before pc with the members todo ahead; a failure, or
\* nothing left to lock, leads to the end of the call
LkAt(f, todo, res) ==
    [f EXCEPT !.pc = IF IsOk(res) /\ todo # <<>> THEN "member" ELSE "finish",
              !.todo = IF IsOk(res) THEN todo ELSE <<>>,
              !.res = IF IsOk(res) /\ todo # <<>> THEN Pending ELSE res]

\* the outcome of some statements: the frame, the collection and the heap
LkOut(f, c, H) == [frame |-> f, content |-> c, heap |-> H]

\* IMArrayElement::get_data
get_data(H, e) ==
    IF IsSome(H.elems[e]) THEN Ok(Unwrap(H.elems[e])) ELSE Panic("UninitializedAccess")

\* IMAxisArrays::update_array
update_array(c, key, e) ==
    IF key \in DOMAIN c.data
    THEN Out(Ok(0), [c EXCEPT !.data[key] = e])
    ELSE Out(Err("KeyNotFound"), c)

\* the statements of a call on the collection from its write_inner or
\* read_inner up to the first guard of a member; order is the order in
\* which the map hands out its members
coll_locked(H, c, f, order, change) ==
    CASE f.op = "add_array" ->
            IF f.key \in DOMAIN c.data
            THEN LkOut(LkAt(f, <<>>, Err("KeyAlreadyExists")), c, H)
            ELSE LkOut(LkAt(f, <<f.elem>>, Ok(0)), c, H)
      [] f.op = "get_array" ->
            IF f.key \in DOMAIN c.data
            THEN LkOut(LkAt(f, <<c.data[f.key]>>, Ok(0)), c, H)
            ELSE LkOut(LkAt(f, <<>>, Err("KeyNotFound")), c, H)
      [] f.op = "get_array_shallow" ->
            LkOut(LkAt(f, <<>>, get_array_shallow(c, f.key)), c, H)
      [] f.op = "remove_array" ->
            Only({LkOut(LkAt(f, <<>>, r.res), r.content, H) : r \in {remove_array(c, f.key)}})
      [] f.op = "update_array" ->
            Only({LkOut(LkAt(f, <<>>, r.res), r.content, H) : r \in {update_array(c, f.key, f.elem)}})
      [] f.op = "keys" ->
            LkOut(LkAt(f, <<>>, Ok(DOMAIN c.data)), c, H)
      [] f.op = "len" ->
            LkOut(LkAt(f, <<>>, Ok(Cardinality(DOMAIN c.data))), c, H)
      [] f.op = "subset" ->
            Only({LkOut(LkAt(f, [k \in 1..Len(order) |-> c.data[order[k]]],
                             IF IsOk(r.res) THEN Ok(0) ELSE r.res), c, H) :
                  r \in {axis_subset(H, [c EXCEPT !.data = <<>>], f.sel)}})
      [] OTHER ->
            Only({LkOut(LkAt(f, [k \in 1..Len(order) |-> c.data[order[k]]], r.res), c, r.heap) :
                  r \in {axis_subset_inplace(H, [c EXCEPT !.data = <<>>], f.sel, <<>>, change)}})

\* the statement made under the guard of member e; data is what set_data
\* stores
member_locked(H, c, f, e, data) ==
    CASE f.op = "add_array" ->
            Only({LkOut(LkAt(f, <<>>, r.res),
                        IF IsOk(r.res) THEN [c EXCEPT !.data = MapInsert(@, f.key, e)] ELSE c, H) :
                  r \in {add_array(H, [c EXCEPT !.data = MapRemove(@, f.key)], f.key, e)}})
      [] f.op = "get_array" \/ f.op = "get_data" ->
            LkOut(LkAt(f, <<>>, get_data(H, e)), c, H)
      [] f.op = "get_shape" ->
            LkOut(LkAt(f, <<>>, get_shape(H, e)), c, H)
      [] f.op = "set_data" ->
            LkOut(LkAt(f, <<>>, Ok(0)), c, [H EXCEPT !.elems[e] = Some(data)])
      [] f.op = "subset" ->
            Only({LkOut(LkAt(f, Tail(f.todo), IF IsOk(r.res) THEN Ok(0) ELSE r.res), c, H) :
                  r \in {elem_subset(H, e, f.sel)}})
      [] OTHER ->
            Only({LkOut(LkAt(f, Tail(f.todo), r.res), c, r.heap) :
                  r \in {elem_subset_inplace(H, e, f.sel)}})

FrameLk == UNCHANGED <<varsSel, varsSlot, varsTbl, ad_op, ad_gone, ad_uns, ad_held>>

LkCanCall(t) == thr[t].pc = "idle"

\* thread t calls op on its handle of layers(); add_array and update_array
\* are handed an element the caller has just made
LkCall(t, op, key, s) ==
    /\ LkCanCall(t)
    /\ IF op \in {"add_array", "update_array"}
       THEN /\ ad_elems' = Append(ad_elems, Some(MkArray(t, <<1, 1>>)))
            /\ locks' = [locks EXCEPT !.elems = Append(@, LkFree)]
       ELSE UNCHANGED <<ad_elems, locks>>
    /\ thr' = [thr EXCEPT ![t] = [op |-> op, key |-> key,
                                  elem |-> IF op \in {"add_array", "update_array"}
                                           THEN Len(ad_elems) + 1 ELSE 0,
                                  sel |-> s, pc |-> "coll", todo |-> <<>>,
                                  res |-> Pending]]
    /\ UNCHANGED <<ad, ad_dims>>
    /\ FrameLk

\* thread t calls op on its shallow handle of element e
LkMemberCall(t, op, e) ==
    /\ LkCanCall(t)
    /\ thr' = [thr EXCEPT ![t] = [op |-> op, key |-> "", elem |-> e,
                                  sel |-> IF op = "elem_subset_inplace"
                                          THEN <<SelectFull, SelectFull>> ELSE <<>>,
                                  pc |-> "member", todo |-> <<e>>,
                                  res |-> Pending]]
    /\ UNCHANGED <<ad, ad_dims, ad_elems, locks>>
    /\ FrameLk

\* self.0.write_inner() or self.0.read_inner() returns, and the call runs
\* on to the first guard of a member
LkLockColl(t) ==
    /\ thr[t].pc = "coll"
    /\ IF CollMode(thr[t].op) = "w" THEN CanWrite(locks.coll) ELSE CanReadLock(locks.coll)
    /\ locks' = [locks EXCEPT !.coll = Acquire(@, t, CollMode(thr[t].op))]
    /\ \E order \in Orders(ad.layers.data), change \in BOOLEAN :
          \E r \in {coll_locked(Heap, ad.layers, thr[t], order, change)} :
             /\ thr' = [thr EXCEPT ![t] = r.frame]
             /\ ad' = [ad EXCEPT !.layers = r.content]
             /\ ad_dims' = r.heap.dims
             /\ ad_elems' = r.heap.elems
    /\ FrameLk

\* the guard of the next member is handed out
LkLockMember(t) ==
    /\ thr[t].pc = "member"
    /\ \E e \in {Head(thr[t].todo)} :
          /\ IF MemberMode(thr[t].op) = "w"
             THEN CanWrite(locks.elems[e])
             ELSE CanReadLock(locks.elems[e])
          /\ locks' = [locks EXCEPT !.elems[e] = Acquire(@, t, MemberMode(thr[t].op))]
    /\ thr' = [thr EXCEPT ![t].pc = "locked"]
    /\ UNCHANGED <<ad, ad_dims, ad_elems>>
    /\ FrameLk

\* the statement under the member's guard, and the drop of that guard
LkMemberStep(t) ==
    /\ thr[t].pc = "locked"
    /\ \E e \in {Head(thr[t].todo)} :
          /\ locks' = [locks EXCEPT !.elems[e] = Release(@, t)]
          /\ \E r \in {member_locked(Heap, ad.layers, thr[t], e, MkArray(t, <<1, 1>>))} :
                /\ thr' = [thr EXCEPT ![t] = r.frame]
                /\ ad' = [ad EXCEPT !.layers = r.content]
                /\ ad_dims' = r.heap.dims
                /\ ad_elems' = r.heap.elems
    /\ FrameLk

\* the call returns (or unwinds): the guard of the collection is dropped
LkFinish(t) ==
    /\ thr[t].pc = "finish"
    /\ locks' = [locks EXCEPT !.coll = Release(@, t)]
    /\ thr' = [thr EXCEPT ![t].pc = "done"]
    /\ UNCHANGED <<ad, ad_dims, ad_elems>>
    /\ FrameLk

\* the selections handed to subset and subset_inplace: one per axis, and
\* one too few
LkSelLists == {<<SelectFull, SelectFull>>, <<SelectFull>>}

\* a one by one aggregate whose layers() is empty or holds "k1"
InitLk ==
    /\ \E b \in {new_basic(EmptyHeap, MkArray(0, <<1, 1>>), ColData(1, 1), ColData(2, 1))} :
          \E H1 \in {ElemNew(b.heap, MkArray(0, <<1, 1>>))} :
             \E r \in {add_array(H1, b.res.val.layers, "k1", Len(H1.elems))} :
                \/ /\ ad = b.res.val
                   /\ ad_dims = b.heap.dims
                   /\ ad_elems = b.heap.elems
                \/ /\ ad = [b.res.val EXCEPT !.layers = r.content]
                   /\ ad_dims = H1.dims
                   /\ ad_elems = H1.elems
    /\ ad_op = AdNoOp
    /\ ad_gone = {}
    /\ ad_uns = <<<<>>>>
    /\ ad_held = <<>>
    /\ thr = [t \in Threads |-> LkIdle]
    /\ locks = [coll |-> LkFree, elems |-> [e \in 1..Len(ad_elems) |-> LkFree]]
    /\ SelIdle
    /\ SlotIdle
    /\ TblIdle

NextLk ==
    \/ \E t \in Threads, op \in CollOps \ {"keys", "len", "subset", "subset_inplace"}, key \in Keys :
          LkCall(t, op, key, <<>>)
    \/ \E t \in Threads, op \in {"keys", "len"} : LkCall(t, op, "", <<>>)
    \/ \E t \in Threads, op \in {"subset", "subset_inplace"}, s \in LkSelLists : LkCall(t, op, "", s)
    \/ \E t \in Threads, op \in MemberOps, e \in DOMAIN ad_elems : LkMemberCall(t, op, e)
    \/ \E t \in Threads : LkLockColl(t)
    \/ \E t \in Threads : LkLockMember(t)
    \/ \E t \in Threads : LkMemberStep(t)
    \/ \E t \in Threads : LkFinish(t)

SpecLk == InitLk /\ [][NextLk]_vars

\* thread t's call takes effect in this step: its result becomes known
LkTakesEffect(t, ops) ==
    thr[t].op \in ops /\ thr[t].pc # "idle" /\ thr[t].res = Pending /\ thr'[t].res # Pending

\* C32: the calls on one collection are linearizable with respect to its
\* key set.  Every add, remove, update, keys and len has one step between
\* its call and its return at which it acts on the key set as it then is:
\* an add of a present key fails with KeyAlreadyExists and changes nothing,
\* an add of an absent key succeeds and stores its own element (so of two
\* concurrent adds of one key exactly one succeeds), a remove takes out
\* its key only, and no other step changes the map, so no update is lost.
C32_KeySetLinearizable ==
    [][/\ \A t \in Threads :
            /\ LkTakesEffect(t, {"add_array"}) =>
                  IF thr[t].key \in DOMAIN ad.layers.data
                  THEN /\ thr'[t].res = Err("KeyAlreadyExists")
                       /\ ad'.layers.data = ad.layers.data
                  ELSE /\ thr'[t].res = Ok(0)
                       /\ ad'.layers.data = MapInsert(ad.layers.data, thr[t].key, thr[t].elem)
            /\ LkTakesEffect(t, {"remove_array"}) =>
                  IF thr[t].key \in DOMAIN ad.layers.data
                  THEN /\ thr'[t].res = Ok(ad.layers.data[thr[t].key])
                       /\ ad'.layers.data = MapRemove(ad.layers.data, thr[t].key)
                  ELSE /\ thr'[t].res = Err("KeyNotFound")
                       /\ ad'.layers.data = ad.layers.data
            /\ LkTakesEffect(t, {"update_array"}) =>
                  /\ DOMAIN ad'.layers.data = DOMAIN ad.layers.data
                  /\ IsOk(thr'[t].res) <=> thr[t].key \in DOMAIN ad.layers.data
            /\ LkTakesEffect(t, {"keys"}) => thr'[t].res = Ok(DOMAIN ad.layers.data)
            /\ LkTakesEffect(t, {"len"}) => thr'[t].res = Ok(Cardinality(DOMAIN ad.layers.data))
       /\ (\A t \in Threads : ~LkTakesEffect(t, {"add_array", "remove_array", "update_array"}))
             => ad'.layers.data = ad.layers.data]_vars

\* the two threads have added "k2" at the same time: thread 2 called first
\* (its element is the older one), thread 1 got the guard first, succeeded
\* and its element is the member; thread 2 failed with KeyAlreadyExists
C32_Witness ==
    /\ thr[1].op = "add_array" /\ thr[1].key = "k2" /\ thr[1].pc = "done"
    /\ thr[2].op = "add_array" /\ thr[2].key = "k2" /\ thr[2].pc = "done"
    /\ thr[2].elem < thr[1].elem
    /\ thr[1].res = Ok(0)
    /\ thr[2].res = Err("KeyAlreadyExists")
    /\ ad.layers.data["k2"] = thr[1].elem
\* parking_lot hands a guard to every thread that keeps asking for it, and
\* a thread that can make its next statement makes it; whether a thread
\* makes another call is up to it
SpecLkFair ==
    /\ SpecLk
    /\ \A t \in Threads :
          /\ SF_vars(LkLockColl(t))
          /\ SF_vars(LkLockMember(t))
          /\ WF_vars(LkMemberStep(t))
          /\ WF_vars(LkFinish(t))

\* thread t is inside a call
LkInCall(t) == thr[t].pc \in {"coll", "member", "locked", "finish"}

\* thread t holds a guard of lock L
LkHolds(L, t) == L.w = t \/ t \in L.r

\* C33: threads calling add, get, shallow get, remove, update, keys, len,
\* subset and subset_inplace on one collection and get_shape, get_data,
\* set_data and subset_inplace on its members never deadlock: a thread asks
\* for the collection's guard only while it holds no guard at all, a
\* thread holding a member's guard asks for no guard, and every call ends.
C33_LocksOrderedCallsReturn ==
    /\ [](\A t \in Threads :
            /\ thr[t].pc = "coll" =>
                  /\ ~LkHolds(locks.coll, t)
                  /\ \A e \in DOMAIN locks.elems : ~LkHolds(locks.elems[e], t)
            /\ (\E e \in DOMAIN locks.elems : LkHolds(locks.elems[e], t)) => thr[t].pc = "locked"
            /\ thr[t].pc = "member" => \A e \in DOMAIN locks.elems : ~LkHolds(locks.elems[e], t))
    /\ \A t \in Threads : LkInCall(t) ~> thr[t].pc = "done"

\* thread 1 subsets the collection in place and holds the guard of a member
\* while thread 2 waits for that member
C33_Witness ==
    /\ thr[1].op = "subset_inplace" /\ thr[1].pc = "locked"
    /\ thr[2].op = "set_data" /\ thr[2].pc = "member"
    /\ Head(thr[2].todo) = Head(thr[1].todo)
    /\ locks.coll.w = 1

====
